---------------------------- MODULE Spec2Model ----------------------------
(***************************************************************************)
(* Model of the BoneManipulationController (forward / inverse kinematics   *)
(* posing tool) of the avatar viewer.                                      *)
(*                                                                         *)
(* The controller owns a mode, a map of marker spheres, a line overlay, a  *)
(* transform widget and a map of IK targets; it adds helpers to a scene    *)
(* graph and click listeners to the renderer's canvas.  The skeleton lives *)
(* in a plane: every bone has a local rotation counted in quarter turns    *)
(* and a rest offset from its parent, and world positions are derived from *)
(* the chain of local rotations, as the scene graph derives them.  The     *)
(* arithmetic of the solver is modelled a second time in space, with       *)
(* fixed-point quaternions, further down.                                  *)
(***************************************************************************)
EXTENDS Integers, Sequences, FiniteSets, TLC

-----------------------------------------------------------------------------
(* Bounds *)

\* GPU resources are counted up to this number ("this many or more")
MaxUndisposed == 3

\* at most this many bones are away from their rest rotation at a time
MaxPosed == 1

-----------------------------------------------------------------------------
(* The humanoid bone vocabulary and the hardcoded tables of the controller *)

HumanBoneName ==
  { "hips", "spine", "chest", "upperChest", "neck", "head",
    "leftShoulder", "leftUpperArm", "leftLowerArm", "leftHand",
    "rightShoulder", "rightUpperArm", "rightLowerArm", "rightHand",
    "leftUpperLeg", "leftLowerLeg", "leftFoot",
    "rightUpperLeg", "rightLowerLeg", "rightFoot" }

BoneManipulationMode == { "off", "ik", "fk" }

\* setupFKMode: the bones that get a marker, in forEach order
boneNames ==
  << "hips", "spine", "chest", "upperChest", "neck", "head",
     "leftShoulder", "leftUpperArm", "leftLowerArm", "leftHand",
     "rightShoulder", "rightUpperArm", "rightLowerArm", "rightHand",
     "leftUpperLeg", "leftLowerLeg", "leftFoot",
     "rightUpperLeg", "rightLowerLeg", "rightFoot" >>

\* setupIKMode: the end effectors and their marker colours
ikBones ==
  << [name |-> "leftHand",  color |-> "ff0000"],
     [name |-> "rightHand", color |-> "0000ff"],
     [name |-> "leftFoot",  color |-> "ffff00"],
     [name |-> "rightFoot", color |-> "00ffff"] >>

\* createBoneLines / updateBoneLines: parent -> child connections
connections ==
  << <<"hips", "spine">>, <<"spine", "chest">>, <<"chest", "upperChest">>,
     <<"upperChest", "neck">>, <<"neck", "head">>,
     <<"upperChest", "leftShoulder">>, <<"leftShoulder", "leftUpperArm">>,
     <<"leftUpperArm", "leftLowerArm">>, <<"leftLowerArm", "leftHand">>,
     <<"upperChest", "rightShoulder">>, <<"rightShoulder", "rightUpperArm">>,
     <<"rightUpperArm", "rightLowerArm">>, <<"rightLowerArm", "rightHand">>,
     <<"hips", "leftUpperLeg">>, <<"leftUpperLeg", "leftLowerLeg">>,
     <<"leftLowerLeg", "leftFoot">>,
     <<"hips", "rightUpperLeg">>, <<"rightUpperLeg", "rightLowerLeg">>,
     <<"rightLowerLeg", "rightFoot">> >>

\* solveIK: the chain of each end effector, root first
chains ==
  [ leftHand  |-> << "leftUpperArm", "leftLowerArm", "leftHand" >>,
    rightHand |-> << "rightUpperArm", "rightLowerArm", "rightHand" >>,
    leftFoot  |-> << "leftUpperLeg", "leftLowerLeg", "leftFoot" >>,
    rightFoot |-> << "rightUpperLeg", "rightLowerLeg", "rightFoot" >> ]

\* solveIK: number of outer iterations
iterations == 10

\* marker colours of forward kinematics
DefaultColor == "00ff00"
SelectedColor == "ffff00"

-----------------------------------------------------------------------------
(* Plane geometry of the skeleton *)

VAdd(a, b) == << a[1] + b[1], a[2] + b[2] >>
VSub(a, b) == << a[1] - b[1], a[2] - b[2] >>

\* v turned by k quarter turns, counter-clockwise
Rot(k, v) ==
  CASE k % 4 = 0 -> v
    [] k % 4 = 1 -> << -v[2], v[1] >>
    [] k % 4 = 2 -> << -v[1], -v[2] >>
    [] k % 4 = 3 -> << v[2], -v[1] >>

\* the parent of every bone but the root in the humanoid hierarchy
Parent ==
  [b \in HumanBoneName \ {"hips"} |->
     LET i == CHOOSE j \in 1..Len(connections) : connections[j][2] = b
     IN  connections[i][1]]

\* offset of a bone from its parent in the rest pose (a T-pose)
RestOffset(b) ==
  CASE b \in {"spine", "chest", "upperChest", "neck", "head"} -> << 0, 1 >>
    [] b \in {"leftShoulder", "leftUpperArm"} -> << 1, 0 >>
    [] b \in {"leftLowerArm", "leftHand"} -> << 2, 0 >>
    [] b \in {"rightShoulder", "rightUpperArm"} -> << -1, 0 >>
    [] b \in {"rightLowerArm", "rightHand"} -> << -2, 0 >>
    [] b = "leftUpperLeg" -> << 1, -1 >>
    [] b = "rightUpperLeg" -> << -1, -1 >>
    [] b \in {"leftLowerLeg", "leftFoot", "rightLowerLeg", "rightFoot"} -> << 0, -2 >>
    [] OTHER -> << 0, 0 >>

RECURSIVE WorldRot(_, _)
\* world rotation of bone b under the local rotations q
WorldRot(q, b) ==
  IF b = "hips" THEN q[b] ELSE (WorldRot(q, Parent[b]) + q[b]) % 4

RECURSIVE WorldPos(_, _)
\* bone.getWorldPosition: world position of bone b under the local rotations q
WorldPos(q, b) ==
  IF b = "hips" THEN << 0, 0 >>
  ELSE VAdd(WorldPos(q, Parent[b]), Rot(WorldRot(q, Parent[b]), RestOffset(b)))


-----------------------------------------------------------------------------
(* State *)

VARIABLES
  vrm,               \* the avatar: [humanoid, bones]; fixed after construction
  quat,              \* local rotation of every bone, in quarter turns
  mode,              \* the controller's manipulation mode
  boneHelpers,       \* bone name -> marker sphere
  boneLines,         \* the line overlay, or NoLines
  helperGroup,       \* children of the helper group, in insertion order
  transformControl,  \* the transform widget, or NoControl
  ikTargets,         \* end effector name -> recorded target position
  sceneChildren,     \* controller-owned children of the scene, in insertion order
  clickListeners,    \* controller click listeners registered on the canvas
  undisposed,        \* marker / overlay geometries and materials not disposed
  transformDragging, \* detail of the last "transform-dragging" canvas event
  threw,             \* an operation dereferenced null and raised a TypeError
  lastOp,            \* the operation that ran last
  again,             \* the last two operations were the same call of
                     \* setMode (same mode), cleanup or dispose
  trace              \* helper-level effects of the operation that ran last

\* the components around the controller
VARIABLES
  viewer,            \* the VRM viewer: its refs, its scene and its loads in flight
  observed,          \* what the viewer's last operations did, for the record
  page,              \* the avatar page: recording sessions, lip-sync, blinking
  chat               \* a chat surface: status, timers, submissions, stored messages

vars == << vrm, quat, mode, boneHelpers, boneLines, helperGroup,
           transformControl, ikTargets, sceneChildren, clickListeners,
           undisposed, transformDragging, threw, lastOp, again, trace,
           viewer, observed, page, chat >>

\* the variables of the controller, but for the name of the last operation
controller == << vrm, quat, mode, boneHelpers, boneLines, helperGroup,
                 transformControl, ikTargets, sceneChildren, clickListeners,
                 undisposed, transformDragging, threw, again, trace >>

\* the variables the controller has no access to
outside == << viewer, observed, page, chat >>

NoObject == [type |-> "none", name |-> "none"]
NoControl == [exists |-> FALSE, mode |-> "none", space |-> "none",
              object |-> NoObject, dragging |-> FALSE, objectChange |-> FALSE]
NoLines == [exists |-> FALSE, positions |-> << >>]
EmptyMap == [k \in {} |-> 0]

\* a child of the viewer's scene: a light, a helper or the scene of the
\* model that load number id produced
Child(kind, id) == [kind |-> kind, id |-> id]

\* the path of the idle animation
BreathingIdle == "/models/animations/Breathing_Idle.fbx"

\* VRMViewer after its mount effect has run: refs at their initial values,
\* the scene holding two lights, the grid and the axes, nothing in flight.
\* Models and the mixers bound to them are named by the number of the load
\* that produced the model; 0 stands for null.
ViewerMounted ==
  [ children |-> << Child("light", 0), Child("light", 0),
                    Child("grid", 0), Child("axes", 0) >>,
    vrmRef |-> 0,
    loadingId |-> 0,
    mixerRef |-> 0,
    currentAnimation |-> [mixer |-> 0, clip |-> 0],
    loadedAnimations |-> EmptyMap,
    activeBlobUrls |-> {},
    promise |-> EmptyMap,
    gltfLoads |-> {},
    fbxLoads |-> {} ]

\* nothing has been observed of the viewer yet
NothingObserved ==
  [ cleared |-> FALSE, updated |-> 0, played |-> 0, threw |-> FALSE ]

\* weights of expressions are counted in this many parts of 1, so that
\* (average - 5) / 50 over 128 frequency bins and step / 10 are whole
WeightScale == 6400

\* AvatarPage after its first render and effects: not recording, no
\* request for the microphone in flight, the blink timer scheduled.
\* Recording sessions are named by the number of the startRecording call
\* that began them; 0 stands for null.
PageMounted ==
  [ isRecording |-> FALSE,
    mediaRecorderRef |-> 0,
    animationFrameRef |-> 0,
    calls |-> 0,
    requests |-> {},
    recorders |-> EmptyMap,
    tracks |-> {},
    loops |-> << >>,
    awaiting |-> {},
    expressions |-> [aa |-> 0, blink |-> 0],
    blink |-> [phase |-> "idle", step |-> 0],
    pushed |-> << >> ]

\* a chat surface after its first render: the threaded chat page
\* ("thread"), which keeps its messages in the database, or the chat prompt
\* of the avatar page ("prompt"), which speaks the reply.  Submissions are
\* named by their number.
ChatMounted(variant) ==
  [ variant |-> variant,
    status |-> "ready",
    messageInput |-> << >>,
    messages |-> << >>,
    timers |-> {},
    runs |-> EmptyMap,
    submits |-> 0 ]

\* the components around the controller in their initial states
OutsideInit ==
  /\ viewer = ViewerMounted
  /\ observed = NothingObserved
  /\ page = PageMounted
  /\ chat = ChatMounted("thread")

\* Map.set
Put(m, k, v) == [x \in (DOMAIN m) \cup {k} |-> IF x = k THEN v ELSE m[x]]

RECURSIVE RemoveFirst(_, _)
\* Object3D.remove: the sequence without its first occurrence of x
RemoveFirst(seq, x) ==
  IF seq = << >> THEN << >>
  ELSE IF Head(seq) = x THEN Tail(seq)
  ELSE << Head(seq) >> \o RemoveFirst(Tail(seq), x)

\* number of occurrences of x in seq
Count(seq, x) == Cardinality({ i \in 1..Len(seq) : seq[i] = x })

\* n more resources allocated
Alloc(u, n) == IF u + n > MaxUndisposed THEN MaxUndisposed ELSE u + n

\* humanoid.getNormalizedBoneNode(name) is not null
getNormalizedBoneNode(name) == vrm.humanoid /\ name \in vrm.bones

\* the controller and what it touches, as one record
St ==
  [ quat |-> quat, mode |-> mode, boneHelpers |-> boneHelpers,
    boneLines |-> boneLines, helperGroup |-> helperGroup,
    transformControl |-> transformControl, ikTargets |-> ikTargets,
    sceneChildren |-> sceneChildren, clickListeners |-> clickListeners,
    undisposed |-> undisposed, transformDragging |-> transformDragging,
    threw |-> threw, trace |-> << >> ]

\* the next state is the record s, reached by operation op
Becomes(s, op) ==
  /\ quat' = s.quat
  /\ mode' = s.mode
  /\ boneHelpers' = s.boneHelpers
  /\ boneLines' = s.boneLines
  /\ helperGroup' = s.helperGroup
  /\ transformControl' = s.transformControl
  /\ ikTargets' = s.ikTargets
  /\ sceneChildren' = s.sceneChildren
  /\ clickListeners' = s.clickListeners
  /\ undisposed' = s.undisposed
  /\ transformDragging' = s.transformDragging
  /\ threw' = s.threw
  /\ trace' = s.trace
  /\ lastOp' = op
  /\ again' = (op \in {"setMode", "cleanup", "dispose"} /\ lastOp = op
                 /\ s.mode = mode)
  /\ UNCHANGED vrm
  /\ UNCHANGED outside

-----------------------------------------------------------------------------
(* Teardown *)

\* removeHelpers forgetting to clear the helper group
removeHelpers_keepsGroup(s) ==
  [s EXCEPT !.boneHelpers = EmptyMap,
            !.boneLines = NoLines,
            !.ikTargets = EmptyMap,
            !.trace = @ \o << "clearGroup", "clearMarkers",
                              "dropOverlay", "clearTargets" >>]

\* removeHelpers forgetting to clear the map of targets
removeHelpers_keepsTargets(s) ==
  [s EXCEPT !.helperGroup = << >>,
            !.boneHelpers = EmptyMap,
            !.boneLines = NoLines,
            !.trace = @ \o << "clearGroup", "clearMarkers",
                              "dropOverlay", "clearTargets" >>]

\* cleanup(): "Remove all helpers"
removeHelpers(s) ==
  [s EXCEPT !.helperGroup = << >>,
            !.boneHelpers = EmptyMap,
            !.boneLines = NoLines,
            !.ikTargets = EmptyMap,
            !.trace = @ \o << "clearGroup", "clearMarkers",
                              "dropOverlay", "clearTargets" >>]

\* removeTransformControl without the null check
removeTransformControl_noGuard(s) ==
  LET tc == s.transformControl
  IN  IF tc.exists
      THEN [s EXCEPT !.transformControl = NoControl,
                     !.sceneChildren = RemoveFirst(@, "TransformControlsRoot"),
                     !.trace = @ \o << "detachNothing", "removeObjectChange",
                                       "removeRoot", "disposeWidget" >>]
      ELSE [s EXCEPT !.threw = TRUE]

\* cleanup(): "Remove transform control"
removeTransformControl(s) ==
  LET tc == s.transformControl
  IN  IF tc.exists
      THEN [s EXCEPT !.transformControl = NoControl,
                     !.sceneChildren = RemoveFirst(@, "TransformControlsRoot"),
                     !.trace = @ \o << CASE tc.object.type = "bone" -> "detachBone"
                                         [] tc.object.type = "marker" -> "detachMarker"
                                         [] OTHER -> "detachNothing",
                                       "removeObjectChange", "removeRoot",
                                       "disposeWidget" >>]
      ELSE s

\* removeClickListeners forgetting the forward-kinematics listener
removeClickListeners_keepsFK(s) ==
  [s EXCEPT !.clickListeners = @ \ {"onIKClick"},
            !.trace = @ \o << "removeFKClick", "removeIKClick" >>]

\* cleanup(): "Remove event listeners"
removeClickListeners(s) ==
  [s EXCEPT !.clickListeners = @ \ {"onFKClick", "onIKClick"},
            !.trace = @ \o << "removeFKClick", "removeIKClick" >>]

\* cleanup()
cleanup(s) == removeClickListeners(removeTransformControl(removeHelpers(s)))

\* dispose also resetting the mode
dispose_resetsMode(s) ==
  LET s1 == cleanup(s)
  IN  [s1 EXCEPT !.sceneChildren = RemoveFirst(@, "BoneManipulationHelpers"),
                 !.mode = "off",
                 !.trace = Append(@, "removeGroup")]

\* dispose leaving the helper group in the scene
dispose_keepsGroup(s) == cleanup(s)

\* dispose()
dispose(s) ==
  LET s1 == cleanup(s)
  IN  [s1 EXCEPT !.sceneChildren = RemoveFirst(@, "BoneManipulationHelpers"),
                 !.trace = Append(@, "removeGroup")]

-----------------------------------------------------------------------------
(* Setup *)

\* the segment list of the overlay: one per connection with both bones present
LinePositions(q) ==
  LET both == SelectSeq(connections,
                LAMBDA c : getNormalizedBoneNode(c[1]) /\ getNormalizedBoneNode(c[2]))
  IN  [i \in 1..Len(both) |-> << WorldPos(q, both[i][1]), WorldPos(q, both[i][2]) >>]

\* createBoneLines reading the world position of both bones of every
\* connection without looking whether the avatar has them
createBoneLines_noPresenceCheck(s) ==
  IF ~vrm.humanoid THEN s
  ELSE IF \E i \in 1..Len(connections) :
            ~getNormalizedBoneNode(connections[i][1])
              \/ ~getNormalizedBoneNode(connections[i][2])
  THEN [s EXCEPT !.threw = TRUE]
  ELSE [s EXCEPT !.boneLines = [exists |-> TRUE, positions |-> LinePositions(s.quat)],
                 !.helperGroup = Append(@, "boneLines"),
                 !.undisposed = Alloc(@, 2),
                 !.trace = Append(@, "addOverlay")]

\* createBoneLines()
createBoneLines(s) ==
  IF ~vrm.humanoid THEN s
  ELSE [s EXCEPT !.boneLines = [exists |-> TRUE, positions |-> LinePositions(s.quat)],
                 !.helperGroup = Append(@, "boneLines"),
                 !.undisposed = Alloc(@, 2),
                 !.trace = Append(@, "addOverlay")]

\* the sphere setupFKMode builds for a bone
FKSphere(q, boneName) ==
  [name |-> boneName, boneName |-> boneName, ikBoneName |-> "none",
   position |-> WorldPos(q, boneName), color |-> DefaultColor]

\* the sphere setupIKMode builds for an end effector
IKSphere(q, name, color) ==
  [name |-> "ik_" \o name, boneName |-> "none", ikBoneName |-> name,
   position |-> WorldPos(q, name), color |-> color]

\* one more marker in the map and in the helper group
AddSphere(s, key, sphere) ==
  [s EXCEPT !.boneHelpers = Put(@, key, sphere),
            !.helperGroup = Append(@, sphere.name),
            !.undisposed = Alloc(@, 2),
            !.trace = Append(@, "addMarker")]

RECURSIVE FKMarkers_everyName(_, _)
\* the forEach of setupFKMode building a marker for every listed name,
\* whether the avatar has the bone or not
FKMarkers_everyName(s, i) ==
  IF i > Len(boneNames) THEN s
  ELSE FKMarkers_everyName(
         AddSphere(s, boneNames[i], FKSphere(s.quat, boneNames[i])), i + 1)

RECURSIVE FKMarkers(_, _)
\* setupFKMode: boneNames.forEach, from index i on
FKMarkers(s, i) ==
  IF i > Len(boneNames) THEN s
  ELSE LET boneName == boneNames[i]
       IN  FKMarkers(IF getNormalizedBoneNode(boneName)
                     THEN AddSphere(s, boneName, FKSphere(s.quat, boneName))
                     ELSE s, i + 1)

RECURSIVE IKMarkers(_, _)
\* setupIKMode: ikBones.forEach, from index i on
IKMarkers(s, i) ==
  IF i > Len(ikBones) THEN s
  ELSE LET b == ikBones[i]
       IN  IKMarkers(IF getNormalizedBoneNode(b.name)
                     THEN AddSphere(s, b.name, IKSphere(s.quat, b.name, b.color))
                     ELSE s, i + 1)

\* setupFKMode()
setupFKMode(s) ==
  IF ~vrm.humanoid THEN s
  ELSE LET s1 == createBoneLines(FKMarkers(s, 1))
       IN  [s1 EXCEPT !.transformControl =
                         [exists |-> TRUE, mode |-> "rotate", space |-> "local",
                          object |-> NoObject, dragging |-> FALSE,
                          objectChange |-> FALSE],
                      !.sceneChildren = Append(@, "TransformControlsRoot"),
                      !.clickListeners = @ \cup {"onFKClick"},
                      !.trace = @ \o << "newWidget", "addRoot", "addFKClick" >>]

\* setupIKMode()
setupIKMode(s) ==
  IF ~vrm.humanoid THEN s
  ELSE LET s1 == createBoneLines(IKMarkers(s, 1))
       IN  [s1 EXCEPT !.transformControl =
                         [exists |-> TRUE, mode |-> "translate", space |-> "world",
                          object |-> NoObject, dragging |-> FALSE,
                          objectChange |-> TRUE],
                      !.sceneChildren = Append(@, "TransformControlsRoot"),
                      !.clickListeners = @ \cup {"onIKClick"},
                      !.trace = @ \o << "newWidget", "addRoot", "addIKClick" >>]

\* setMode building the new helpers before tearing the old ones down
setMode_setupFirst(s, m) ==
  LET s1 == [s EXCEPT !.mode = m]
  IN  cleanup(IF m = "fk" THEN setupFKMode(s1)
              ELSE IF m = "ik" THEN setupIKMode(s1)
              ELSE s1)

\* setMode returning early when the mode is unchanged
setMode_earlyReturn(s, m) ==
  IF m = s.mode THEN s
  ELSE LET s1 == [cleanup(s) EXCEPT !.mode = m]
       IN  IF m = "fk" THEN setupFKMode(s1)
           ELSE IF m = "ik" THEN setupIKMode(s1)
           ELSE s1

\* setMode(m)
setMode(s, m) ==
  LET s1 == [cleanup(s) EXCEPT !.mode = m]
  IN  IF m = "fk" THEN setupFKMode(s1)
      ELSE IF m = "ik" THEN setupIKMode(s1)
      ELSE s1

-----------------------------------------------------------------------------
(* Picking and dragging *)

\* onFKClick colouring the picked marker without resetting the others
onFKClick_keepsOldHighlight(s, hit) ==
  IF hit = "none" THEN s
  ELSE LET boneName == s.boneHelpers[hit].boneName
           s1 == [s EXCEPT !.boneHelpers[boneName].color = SelectedColor,
                           !.trace = Append(@, "highlight")]
       IN  IF getNormalizedBoneNode(boneName) /\ s.transformControl.exists
           THEN [s1 EXCEPT !.transformControl.object =
                              [type |-> "bone", name |-> boneName],
                           !.trace = Append(@, "attachBone")]
           ELSE s1

\* onFKClick dropping the selection when the ray hits no marker
onFKClick_deselectsOnMiss(s, hit) ==
  LET boneName == IF hit = "none" THEN "none" ELSE s.boneHelpers[hit].boneName
      s1 == [s EXCEPT !.boneHelpers =
               [name \in DOMAIN @ |->
                  [@[name] EXCEPT !.color = IF name = boneName
                                            THEN SelectedColor
                                            ELSE DefaultColor]],
               !.trace = Append(@, "highlight")]
  IN  IF ~s.transformControl.exists THEN s1
      ELSE IF getNormalizedBoneNode(boneName)
      THEN [s1 EXCEPT !.transformControl.object =
                         [type |-> "bone", name |-> boneName],
                      !.trace = Append(@, "attachBone")]
      ELSE [s1 EXCEPT !.transformControl.object = NoObject]

\* onFKClick, hit = key of the nearest marker the ray intersects, or "none"
onFKClick(s, hit) ==
  IF hit = "none" THEN s
  ELSE LET boneName == s.boneHelpers[hit].boneName
           s1 == [s EXCEPT !.boneHelpers =
                    [name \in DOMAIN @ |->
                       [@[name] EXCEPT !.color = IF name = boneName
                                                 THEN SelectedColor
                                                 ELSE DefaultColor]],
                    !.trace = Append(@, "highlight")]
       IN  IF getNormalizedBoneNode(boneName) /\ s.transformControl.exists
           THEN [s1 EXCEPT !.transformControl.object =
                              [type |-> "bone", name |-> boneName],
                           !.trace = Append(@, "attachBone")]
           ELSE s1

\* onIKClick, hit = key of the nearest marker the ray intersects, or "none"
onIKClick(s, hit) ==
  IF hit # "none" /\ s.transformControl.exists
  THEN [s EXCEPT !.transformControl.object = [type |-> "marker", name |-> hit],
                 !.trace = Append(@, "attachMarker")]
  ELSE s

\* 1 / threshold of solveIK
ThresholdInv == 100

\* distanceTo(b) < threshold
Near(a, b) ==
  LET d == VSub(a, b)
  IN  (d[1] * d[1] + d[2] * d[2]) * ThresholdInv * ThresholdInv < 1

Abs(x) == IF x < 0 THEN -x ELSE x

\* setFromUnitVectors(normalize(u), normalize(v)): the minimal arc from u to
\* v, to the nearest quarter turn (a zero vector normalizes to zero and
\* gives the identity)
MinimalArc(u, v) ==
  LET cross == u[1] * v[2] - u[2] * v[1]
      dot == u[1] * v[1] + u[2] * v[2]
  IN  IF u = << 0, 0 >> \/ v = << 0, 0 >> THEN 0
      ELSE IF dot > 0 /\ Abs(cross) <= dot THEN 0
      ELSE IF dot < 0 /\ Abs(cross) < -dot THEN 2
      ELSE IF cross > 0 THEN 1
      ELSE 3

\* the local rotations of a skeleton
Rotations == [HumanBoneName -> 0..3]

RECURSIVE SolveInner_turnsWhenClose(_, _, _, _)
\* the inner loop giving the bone one more quarter turn before it breaks
SolveInner_turnsWhenClose(s, bones, targetPos, i) ==
  IF i < 1 \/ s.quat \notin Rotations THEN s
  ELSE LET bone == bones[i]
           bonePos == WorldPos(s.quat, bone)
           endEffectorPos == WorldPos(s.quat, bones[Len(bones)])
       IN  IF Near(endEffectorPos, targetPos)
           THEN [s EXCEPT !.quat[bone] = (@ + 1) % 4,
                          !.trace = Append(@, "closeEnough")]
           ELSE SolveInner_turnsWhenClose(
                  [s EXCEPT !.quat[bone] =
                              (@ + MinimalArc(VSub(endEffectorPos, bonePos),
                                              VSub(targetPos, bonePos))) % 4,
                            !.trace = Append(@, bone)],
                  bones, targetPos, i - 1)

RECURSIVE SolveInner_turnsEndEffector(_, _, _, _)
\* the inner loop applying every rotation to the end effector as well
SolveInner_turnsEndEffector(s, bones, targetPos, i) ==
  IF i < 1 \/ s.quat \notin Rotations THEN s
  ELSE LET bone == bones[i]
           bonePos == WorldPos(s.quat, bone)
           endEffectorPos == WorldPos(s.quat, bones[Len(bones)])
           arc == MinimalArc(VSub(endEffectorPos, bonePos), VSub(targetPos, bonePos))
       IN  IF Near(endEffectorPos, targetPos)
           THEN [s EXCEPT !.trace = Append(@, "closeEnough")]
           ELSE SolveInner_turnsEndEffector(
                  [s EXCEPT !.quat[bone] = (@ + arc) % 4,
                            !.quat[bones[Len(bones)]] = (@ + arc) % 4,
                            !.trace = Append(@, bone)],
                  bones, targetPos, i - 1)

RECURSIVE SolveInner(_, _, _, _)
\* solveIK: the inner loop from index i down to 1 (bones is 1-based here);
\* the trace gets the name of every bone that is rotated, or "closeEnough"
\* where the loop breaks.  The membership test only makes TLC evaluate the
\* rotations before the loop body.
SolveInner(s, bones, targetPos, i) ==
  IF i < 1 \/ s.quat \notin Rotations THEN s
  ELSE LET bone == bones[i]
           bonePos == WorldPos(s.quat, bone)
           endEffectorPos == WorldPos(s.quat, bones[Len(bones)])
       IN  IF Near(endEffectorPos, targetPos)
           THEN [s EXCEPT !.trace = Append(@, "closeEnough")]
           ELSE SolveInner(
                  [s EXCEPT !.quat[bone] =
                              (@ + MinimalArc(VSub(endEffectorPos, bonePos),
                                              VSub(targetPos, bonePos))) % 4,
                            !.trace = Append(@, bone)],
                  bones, targetPos, i - 1)

RECURSIVE SolveOuter_fromEndEffector(_, _, _, _)
\* the outer loop with an inner loop that starts at the end effector
SolveOuter_fromEndEffector(s, bones, targetPos, iter) ==
  IF iter >= iterations THEN s
  ELSE SolveOuter_fromEndEffector(
         SolveInner([s EXCEPT !.trace = Append(@, "iteration")],
                    bones, targetPos, Len(bones)),
         bones, targetPos, iter + 1)

RECURSIVE SolveOuter(_, _, _, _)
\* solveIK: the outer loop from iteration iter on
SolveOuter(s, bones, targetPos, iter) ==
  IF iter >= iterations THEN s
  ELSE SolveOuter(SolveInner([s EXCEPT !.trace = Append(@, "iteration")],
                             bones, targetPos, Len(bones) - 1),
                  bones, targetPos, iter + 1)

\* solveIK(endEffectorName)
solveIK(s, endEffectorName) ==
  LET s1 == [s EXCEPT !.trace = Append(@, "solve")]
  IN  IF ~vrm.humanoid THEN s1
      ELSE IF endEffectorName \notin DOMAIN s.ikTargets THEN s1
      ELSE IF endEffectorName \notin DOMAIN chains THEN s1
      ELSE LET bones == SelectSeq(chains[endEffectorName], getNormalizedBoneNode)
           IN  IF Len(bones) < 2 THEN s1
               ELSE SolveOuter(s1, bones, s.ikTargets[endEffectorName], 0)

\* onIKTransform running the solver before it records the new target
onIKTransform_solvesBeforeRecording(s) ==
  LET obj == s.transformControl.object
  IN  IF ~s.transformControl.exists \/ obj.type = "none" THEN s
      ELSE LET boneName ==
                 IF obj.type = "marker" /\ obj.name \in DOMAIN s.boneHelpers
                 THEN s.boneHelpers[obj.name].ikBoneName
                 ELSE "none"
               s1 == IF boneName = "none" THEN s ELSE solveIK(s, boneName)
           IN  IF boneName = "none" THEN s
               ELSE [s1 EXCEPT !.ikTargets =
                                  Put(@, boneName, s.boneHelpers[obj.name].position),
                               !.trace = Append(@, "recordTarget")]

\* onIKTransform
onIKTransform(s) ==
  LET obj == s.transformControl.object
  IN  IF ~s.transformControl.exists \/ obj.type = "none" THEN s
      ELSE LET boneName ==
                 IF obj.type = "marker" /\ obj.name \in DOMAIN s.boneHelpers
                 THEN s.boneHelpers[obj.name].ikBoneName
                 ELSE "none"
           IN  IF boneName = "none" THEN s
               ELSE solveIK([s EXCEPT !.ikTargets =
                                Put(@, boneName, s.boneHelpers[obj.name].position),
                                !.trace = Append(@, "recordTarget")],
                            boneName)

\* the widget's "dragging-changed" listener: forwards the value to the canvas
draggingChanged(s, value) ==
  [s EXCEPT !.transformControl.dragging = value,
            !.transformDragging = value,
            !.trace = Append(@, IF value THEN "draggingTrue" ELSE "draggingFalse")]

\* a rotate drag of the widget turns the attached bone by a quarter turn
rotateDrag(s) ==
  LET obj == s.transformControl.object
  IN  IF obj.type = "bone"
      THEN [s EXCEPT !.quat[obj.name] = (@ + 1) % 4,
                     !.trace = Append(@, "rotateBone")]
      ELSE s

\* a translate drag of the widget moves the attached marker to p and fires
\* "objectChange"
translateDrag(s, p) ==
  LET obj == s.transformControl.object
      s1 == IF obj.type = "marker" /\ obj.name \in DOMAIN s.boneHelpers
            THEN [s EXCEPT !.boneHelpers[obj.name].position = p,
                           !.trace = Append(@, "moveMarker")]
            ELSE s
  IN  IF s.transformControl.objectChange THEN onIKTransform(s1) ELSE s1

-----------------------------------------------------------------------------
(* Per-frame refresh *)

\* updateBoneLines()
updateBoneLines(s) ==
  IF ~s.boneLines.exists THEN s
  ELSE IF ~vrm.humanoid THEN s
  ELSE [s EXCEPT !.boneLines.positions = LinePositions(s.quat),
                 !.trace = Append(@, "rebuildOverlay")]

\* update without the mode check, building a new overlay every frame
update_noGuard(s) ==
  createBoneLines(
    [s EXCEPT !.boneHelpers =
       [boneName \in DOMAIN @ |->
          IF getNormalizedBoneNode(boneName)
          THEN [@[boneName] EXCEPT !.position = WorldPos(s.quat, boneName)]
          ELSE @[boneName]],
       !.trace = Append(@, "refreshMarkers")])

\* update leaving alone the marker the widget is attached to
update_skipsAttached(s) ==
  IF s.mode = "off" THEN s
  ELSE updateBoneLines(
         [s EXCEPT !.boneHelpers =
            [boneName \in DOMAIN @ |->
               IF getNormalizedBoneNode(boneName)
                  /\ s.transformControl.object # [type |-> "marker", name |-> boneName]
               THEN [@[boneName] EXCEPT !.position = WorldPos(s.quat, boneName)]
               ELSE @[boneName]],
            !.trace = Append(@, "refreshMarkers")])

\* update()
update(s) ==
  IF s.mode = "off" THEN s
  ELSE updateBoneLines(
         [s EXCEPT !.boneHelpers =
            [boneName \in DOMAIN @ |->
               IF getNormalizedBoneNode(boneName)
               THEN [@[boneName] EXCEPT !.position = WorldPos(s.quat, boneName)]
               ELSE @[boneName]],
            !.trace = Append(@, "refreshMarkers")])

-----------------------------------------------------------------------------
(* Inputs *)

\* the avatars a controller is constructed on
Skeletons ==
  { [humanoid |-> TRUE, bones |-> HumanBoneName],
    [humanoid |-> TRUE,
     bones |-> HumanBoneName \ {"upperChest", "rightHand", "leftLowerLeg"}],
    [humanoid |-> TRUE, bones |-> {"hips", "spine", "head", "leftHand"}],
    [humanoid |-> TRUE, bones |-> {}],
    [humanoid |-> FALSE, bones |-> {}] }

\* the markers a click ray is aimed at
Pickable == { "leftLowerArm", "leftHand" }

\* the positions a translate drag moves a marker to
Targets == { << 4, 5 >>, << 6, 3 >>, << -1, -3 >> }

\* the bones away from their rest rotation
Posed(q) == { b \in HumanBoneName : q[b] # 0 }

-----------------------------------------------------------------------------
(* Specification *)

Init ==
  /\ vrm \in Skeletons
  /\ quat = [b \in HumanBoneName |-> 0]
  /\ mode = "off"
  /\ boneHelpers = EmptyMap
  /\ boneLines = NoLines
  /\ helperGroup = << >>
  /\ transformControl = NoControl
  /\ ikTargets = EmptyMap
  /\ sceneChildren = << "BoneManipulationHelpers" >>
  /\ clickListeners = {}
  /\ undisposed = 0
  /\ transformDragging = FALSE
  /\ threw = FALSE
  /\ again = FALSE
  /\ lastOp = "constructor"
  /\ trace = << "addGroup" >>
  /\ OutsideInit

\* the owner calls setMode(m)
SetMode(m) == Becomes(setMode(St, m), "setMode")

\* the render loop calls update()
Update == Becomes(update(St), "update")

\* the owner calls cleanup()
Cleanup == Becomes(cleanup(St), "cleanup")

\* the owner calls dispose()
Dispose == Becomes(dispose(St), "dispose")

\* a click on the canvas while the forward-kinematics listener is registered
FKClick(hit) ==
  /\ "onFKClick" \in clickListeners
  /\ ~transformControl.dragging
  /\ Becomes(onFKClick(St, hit), IF hit = "none" THEN "missFK" ELSE "clickFK")

\* a click on the canvas while the inverse-kinematics listener is registered
IKClick(hit) ==
  /\ "onIKClick" \in clickListeners
  /\ ~transformControl.dragging
  /\ Becomes(onIKClick(St, hit), IF hit = "none" THEN "missIK" ELSE "clickIK")

\* pointer down on a handle of the widget: the drag starts
DragStart ==
  /\ transformControl.exists
  /\ transformControl.object.type # "none"
  /\ ~transformControl.dragging
  /\ Becomes(draggingChanged(St, TRUE), "dragStart")

\* pointer move during a rotate drag
DragRotate ==
  /\ transformControl.exists
  /\ transformControl.dragging
  /\ transformControl.mode = "rotate"
  /\ LET s == rotateDrag(St)
     IN  /\ Cardinality(Posed(s.quat)) <= MaxPosed
         /\ Becomes(s, "dragRotate")

\* pointer move during a translate drag
DragTranslate(p) ==
  /\ transformControl.exists
  /\ transformControl.dragging
  /\ transformControl.mode = "translate"
  /\ LET s == translateDrag(St, p)
     IN  /\ Cardinality(Posed(s.quat)) <= MaxPosed
         /\ Becomes(s, "dragTranslate")

\* pointer up: the drag ends
DragEnd ==
  /\ transformControl.exists
  /\ transformControl.dragging
  /\ Becomes(draggingChanged(St, FALSE), "dragEnd")

Hits == {"none"} \cup (DOMAIN boneHelpers \cap Pickable)

Next ==
  \/ \E m \in BoneManipulationMode : SetMode(m)
  \/ Update
  \/ Cleanup
  \/ Dispose
  \/ \E hit \in Hits : FKClick(hit)
  \/ \E hit \in Hits : IKClick(hit)
  \/ DragStart
  \/ DragRotate
  \/ \E p \in Targets : DragTranslate(p)
  \/ DragEnd

Spec == Init /\ [][Next]_vars

TypeOK ==
  /\ mode \in BoneManipulationMode
  /\ DOMAIN boneHelpers \subseteq HumanBoneName
  /\ undisposed \in 0..MaxUndisposed

-----------------------------------------------------------------------------
(* Specification of inverse kinematics on single limbs *)

\* the bones of the trunk
Trunk == { "hips", "spine", "chest", "upperChest", "neck", "head" }

\* avatars with the trunk and one limb, the limb whole or lacking bones
\* above its end effector
LimbSkeletons ==
  { [humanoid |-> TRUE, bones |-> Trunk \cup X] :
      X \in UNION { { { chains[e][1], chains[e][2], e }, { chains[e][2], e },
                       { chains[e][1], e }, { e } } : e \in DOMAIN chains } }

\* the positions a marker is dragged to: the rest position of every end
\* effector, a bent pose of every limb and a point out of reach
LimbTargets ==
  { << 6, 3 >>, << -6, 3 >>, << 1, -5 >>, << -1, -5 >>,
    << 4, 5 >>, << -4, 1 >>, << 3, -3 >>, << -1, -1 >>, << 0, 9 >> }

InitIK ==
  /\ vrm \in LimbSkeletons
  /\ quat = [b \in HumanBoneName |-> 0]
  /\ mode = "off"
  /\ boneHelpers = EmptyMap
  /\ boneLines = NoLines
  /\ helperGroup = << >>
  /\ transformControl = NoControl
  /\ ikTargets = EmptyMap
  /\ sceneChildren = << "BoneManipulationHelpers" >>
  /\ clickListeners = {}
  /\ undisposed = 0
  /\ transformDragging = FALSE
  /\ threw = FALSE
  /\ again = FALSE
  /\ lastOp = "constructor"
  /\ trace = << "addGroup" >>
  /\ OutsideInit

\* pointer move during a translate drag: the marker follows the pointer and
\* the widget fires "objectChange"
DragMarker(p) ==
  /\ transformControl.exists
  /\ transformControl.dragging
  /\ transformControl.mode = "translate"
  /\ Becomes(translateDrag(St, p), "dragMarker")

\* an "objectChange" event reaches the listener while the widget is
\* attached to nothing
ObjectChange ==
  /\ transformControl.exists
  /\ transformControl.objectChange
  /\ transformControl.object = NoObject
  /\ Becomes(onIKTransform(St), "objectChange")

NextIK ==
  \/ \E m \in {"off", "ik"} : SetMode(m)
  \/ Update
  \/ \E hit \in {"none"} \cup DOMAIN boneHelpers : IKClick(hit)
  \/ DragStart
  \/ \E p \in LimbTargets : DragMarker(p)
  \/ DragEnd
  \/ ObjectChange

SpecIK == InitIK /\ [][NextIK]_vars

-----------------------------------------------------------------------------
(* The solver in space.                                                    *)
(*                                                                         *)
(* Rotations in a plane commute, so the planar skeleton cannot tell apart  *)
(* a rotation applied in the frame of the world from one applied in the    *)
(* frame of the bone.  Here the chain lives in space: positions are        *)
(* triples in thousandths of a length unit, quaternions are quadruples     *)
(* << x, y, z, w >> in thousandths, and every product is rounded to the    *)
(* nearest thousandth, as floating point rounds to the nearest float.      *)

\* fixed-point one
Scale == 1000

\* thousandths per length unit of the planar rest offsets
UnitLength == 125

\* a / b rounded to the nearest integer (b > 0)
Round(a, b) == (2 * a + b) \div (2 * b)

RECURSIVE ISqrtBetween(_, _, _)
\* the largest r in lo..hi with r * r <= n
ISqrtBetween(n, lo, hi) ==
  IF lo >= hi THEN lo
  ELSE LET mid == (lo + hi + 1) \div 2
       IN  IF mid * mid <= n THEN ISqrtBetween(n, mid, hi)
           ELSE ISqrtBetween(n, lo, mid - 1)

\* Math.sqrt, rounded down
ISqrt(n) == ISqrtBetween(n, 0, 4 * Scale)

\* Vector3: sub, add, cross, dot, lengthSq
Sub3(a, b) == << a[1] - b[1], a[2] - b[2], a[3] - b[3] >>
Add3(a, b) == << a[1] + b[1], a[2] + b[2], a[3] + b[3] >>
Cross3(a, b) == << a[2] * b[3] - a[3] * b[2],
                   a[3] * b[1] - a[1] * b[3],
                   a[1] * b[2] - a[2] * b[1] >>
Dot3(a, b) == a[1] * b[1] + a[2] * b[2] + a[3] * b[3]
DistanceSq(a, b) == Dot3(Sub3(a, b), Sub3(a, b))

\* Vector3.normalize: a vector of length Scale, or zero for the zero vector
Normalize3(v) ==
  LET n == ISqrt(Dot3(v, v))
  IN  IF n = 0 THEN << 0, 0, 0 >>
      ELSE << Round(v[1] * Scale, n), Round(v[2] * Scale, n), Round(v[3] * Scale, n) >>

\* the identity quaternion
Identity == << 0, 0, 0, Scale >>

\* Quaternion.normalize
NormalizeQ(q) ==
  LET n == ISqrt(q[1] * q[1] + q[2] * q[2] + q[3] * q[3] + q[4] * q[4])
  IN  IF n = 0 THEN Identity
      ELSE << Round(q[1] * Scale, n), Round(q[2] * Scale, n),
              Round(q[3] * Scale, n), Round(q[4] * Scale, n) >>

\* Quaternion.multiplyQuaternions(a, b): a * b
MultiplyQ(a, b) ==
  << Round(a[4] * b[1] + a[1] * b[4] + a[2] * b[3] - a[3] * b[2], Scale),
     Round(a[4] * b[2] - a[1] * b[3] + a[2] * b[4] + a[3] * b[1], Scale),
     Round(a[4] * b[3] + a[1] * b[2] - a[2] * b[1] + a[3] * b[4], Scale),
     Round(a[4] * b[4] - a[1] * b[1] - a[2] * b[2] - a[3] * b[3], Scale) >>

\* Vector3.applyQuaternion: v turned by the unit quaternion q
ApplyQ(q, v) ==
  LET u == << q[1], q[2], q[3] >>
      c == Cross3(u, v)
      c1 == << Round(c[1], Scale), Round(c[2], Scale), Round(c[3], Scale) >>
      d == Cross3(u, c1)
      c2 == << Round(d[1], Scale), Round(d[2], Scale), Round(d[3], Scale) >>
  IN  << v[1] + Round(2 * q[4] * c1[1], Scale) + 2 * c2[1],
         v[2] + Round(2 * q[4] * c1[2], Scale) + 2 * c2[2],
         v[3] + Round(2 * q[4] * c1[3], Scale) + 2 * c2[3] >>

\* Quaternion.setFromUnitVectors(vFrom, vTo): the minimal arc, with the
\* library's choice of axis for opposite vectors
SetFromUnitVectors(vFrom, vTo) ==
  LET r == Round(Dot3(vFrom, vTo), Scale) + Scale
      c == Cross3(vFrom, vTo)
  IN  NormalizeQ(
        IF r <= 0
        THEN IF Abs(vFrom[1]) > Abs(vFrom[3])
             THEN << -vFrom[2], vFrom[1], 0, 0 >>
             ELSE << 0, -vFrom[3], vFrom[2], 0 >>
        ELSE << Round(c[1], Scale), Round(c[2], Scale), Round(c[3], Scale), r >>)

\* the rest offset of a bone in space
RestOffsetSpatial(b) ==
  << RestOffset(b)[1] * UnitLength, RestOffset(b)[2] * UnitLength, 0 >>

RECURSIVE WorldQuaternion(_, _)
\* bone.getWorldQuaternion: the product of the local quaternions from the
\* root down to bone b
WorldQuaternion(q, b) ==
  IF b = "hips" THEN q[b] ELSE MultiplyQ(WorldQuaternion(q, Parent[b]), q[b])

RECURSIVE WorldPosition(_, _)
\* bone.getWorldPosition in space
WorldPosition(q, b) ==
  IF b = "hips" THEN << 0, 0, 0 >>
  ELSE Add3(WorldPosition(q, Parent[b]),
            ApplyQ(WorldQuaternion(q, Parent[b]), RestOffsetSpatial(b)))

\* distanceTo(b) < threshold
NearSpatial(a, b) ==
  DistanceSq(a, b) < (Scale \div ThresholdInv) * (Scale \div ThresholdInv)

\* every bone has a quaternion
IsPose(q) == \A b \in HumanBoneName : Len(q[b]) = 4

RECURSIVE SolveInnerSpatial(_, _, _, _)
\* solveIK in space: the inner loop from index i down to 1; the test of the
\* pose only makes TLC evaluate it before the loop body
SolveInnerSpatial(s, bones, targetPos, i) ==
  IF i < 1 \/ ~IsPose(s.quat) THEN s
  ELSE LET bone == bones[i]
           bonePos == WorldPosition(s.quat, bone)
           endEffectorPos == WorldPosition(s.quat, bones[Len(bones)])
           toEnd == Normalize3(Sub3(endEffectorPos, bonePos))
           toTarget == Normalize3(Sub3(targetPos, bonePos))
           rotationQuat == SetFromUnitVectors(toEnd, toTarget)
       IN  IF NearSpatial(endEffectorPos, targetPos)
           THEN [s EXCEPT !.trace = Append(@, "closeEnough")]
           ELSE SolveInnerSpatial(
                  [s EXCEPT !.quat[bone] = MultiplyQ(@, rotationQuat),
                            !.trace = Append(@, bone)],
                  bones, targetPos, i - 1)

RECURSIVE SolveOuterSpatial(_, _, _, _)
\* solveIK in space: the outer loop from iteration iter on; the test of
\* the pose only makes TLC evaluate it before the next iteration
SolveOuterSpatial(s, bones, targetPos, iter) ==
  IF iter >= iterations \/ ~IsPose(s.quat) THEN s
  ELSE SolveOuterSpatial(
         SolveInnerSpatial([s EXCEPT !.trace = Append(@, "iteration")],
                           bones, targetPos, Len(bones) - 1),
         bones, targetPos, iter + 1)

\* solveIK(endEffectorName) in space
solveIKSpatial(s, endEffectorName) ==
  LET s1 == [s EXCEPT !.trace = Append(@, "solve")]
  IN  IF ~vrm.humanoid THEN s1
      ELSE IF endEffectorName \notin DOMAIN s.ikTargets THEN s1
      ELSE IF endEffectorName \notin DOMAIN chains THEN s1
      ELSE LET bones == SelectSeq(chains[endEffectorName], getNormalizedBoneNode)
           IN  IF Len(bones) < 2 THEN s1
               ELSE SolveOuterSpatial(s1, bones, s.ikTargets[endEffectorName], 0)

\* onIKTransform in space
onIKTransformSpatial(s) ==
  LET obj == s.transformControl.object
  IN  IF ~s.transformControl.exists \/ obj.type = "none" THEN s
      ELSE LET boneName ==
                 IF obj.type = "marker" /\ obj.name \in DOMAIN s.boneHelpers
                 THEN s.boneHelpers[obj.name].ikBoneName
                 ELSE "none"
           IN  IF boneName = "none" THEN s
               ELSE solveIKSpatial(
                      [s EXCEPT !.ikTargets =
                                  Put(@, boneName, s.boneHelpers[obj.name].position),
                                !.trace = Append(@, "recordTarget")],
                      boneName)

\* a translate drag in space moves the attached marker to p and fires
\* "objectChange"
translateDragSpatial(s, p) ==
  LET obj == s.transformControl.object
      s1 == IF obj.type = "marker" /\ obj.name \in DOMAIN s.boneHelpers
            THEN [s EXCEPT !.boneHelpers[obj.name].position = p,
                           !.trace = Append(@, "moveMarker")]
            ELSE s
  IN  IF s.transformControl.objectChange THEN onIKTransformSpatial(s1) ELSE s1

-----------------------------------------------------------------------------
(* Specification of the solver in space: the left hand's marker is dragged *)
(* along a path and every position change runs the solver                  *)

\* the controller right after construction, as a record
Constructed ==
  [ quat |-> [b \in HumanBoneName |-> 0], mode |-> "off",
    boneHelpers |-> EmptyMap, boneLines |-> NoLines, helperGroup |-> << >>,
    transformControl |-> NoControl, ikTargets |-> EmptyMap,
    sceneChildren |-> << "BoneManipulationHelpers" >>, clickListeners |-> {},
    undisposed |-> 0, transformDragging |-> FALSE, threw |-> FALSE,
    trace |-> << >> ]

\* a point of the plane, in space
PointInSpace(p) == << p[1] * UnitLength, p[2] * UnitLength, 0 >>

\* the controller state s, built on the rest pose, with the skeleton in
\* space: every bone has the identity quaternion
InSpace(s) ==
  [s EXCEPT !.quat = [b \in HumanBoneName |-> Identity],
            !.boneHelpers =
               [k \in DOMAIN @ |->
                  [@[k] EXCEPT !.position = PointInSpace(@)]],
            !.boneLines.positions =
               [i \in DOMAIN @ |->
                  << PointInSpace(@[i][1]), PointInSpace(@[i][2]) >>]]

\* avatars with the trunk and a left arm of at least two bones
ArmSkeletons ==
  { a \in LimbSkeletons :
      "leftHand" \in a.bones /\ Cardinality(a.bones \ Trunk) >= 2 }

\* the positions the pointer takes the marker through, in this order
SpatialPath ==
  << << 375, 375, -250 >>, << 250, 250, 125 >>, << 500, 500, -250 >>,
     << 250, 625, -125 >>, << 625, 250, -125 >>, << 375, 625, -125 >> >>

\* inverse kinematics is on, the left hand's marker is picked and a drag
\* has started
InitSolve ==
  /\ vrm \in ArmSkeletons
  /\ LET s == InSpace(draggingChanged(
                        onIKClick(setMode(Constructed, "ik"), "leftHand"), TRUE))
     IN  /\ quat = s.quat
         /\ mode = s.mode
         /\ boneHelpers = s.boneHelpers
         /\ boneLines = s.boneLines
         /\ helperGroup = s.helperGroup
         /\ transformControl = s.transformControl
         /\ ikTargets = s.ikTargets
         /\ sceneChildren = s.sceneChildren
         /\ clickListeners = s.clickListeners
         /\ undisposed = s.undisposed
         /\ transformDragging = s.transformDragging
         /\ threw = s.threw
         /\ trace = << "draggingTrue" >>
  /\ lastOp = "dragStart"
  /\ again = FALSE
  /\ OutsideInit

\* pointer move during the drag: the marker goes on to point j of the path
DragMarkerSpatial(j) ==
  /\ transformControl.exists
  /\ transformControl.dragging
  /\ transformControl.mode = "translate"
  /\ transformControl.object.type = "marker"
  /\ \A i \in j..Len(SpatialPath) :
       boneHelpers[transformControl.object.name].position # SpatialPath[i]
  /\ Becomes(translateDragSpatial(St, SpatialPath[j]), "dragMarker")

NextSolve == \E j \in 1..Len(SpatialPath) : DragMarkerSpatial(j)

SpecSolve == InitSolve /\ [][NextSolve]_vars

-----------------------------------------------------------------------------
(* The VRM viewer: loading, replacing and animating the displayed model   *)

\* at most this many loads are started
MaxLoads == 3

\* the animation an owner asks for besides the idle animation
OtherAnimation == "/models/animations/Waving.fbx"

\* the viewer and what has been observed of it, as one record
Vw == [v |-> viewer, o |-> observed]

\* the next state is the record w, reached by operation op
ViewerBecomes(w, op) ==
  /\ viewer' = w.v
  /\ observed' = w.o
  /\ lastOp' = op
  /\ UNCHANGED controller
  /\ UNCHANGED << page, chat >>

\* the children clearScene and loadVRM take out of the scene: all but
\* lights, the grid and the axes
childrenToRemove(children) ==
  SelectSeq(children, LAMBDA c : c.kind \notin {"light", "grid", "axes"})

\* scene.remove of every child of toRemove
RemoveAll(children, toRemove) ==
  SelectSeq(children, LAMBDA c : \A i \in 1..Len(toRemove) : toRemove[i] # c)

\* clearScene()
clearScene(w) ==
  [w EXCEPT !.v.children = RemoveAll(@, childrenToRemove(@)),
            !.v.vrmRef = 0,
            !.o.cleared = TRUE]

\* loadBreathingAnimation(vrm): the request for the idle animation of
\* the model goes out
loadBreathingAnimation(w, model) ==
  [w EXCEPT !.v.fbxLoads = @ \cup {[path |-> BreathingIdle, vrm |-> model]}]

\* handleVRMLoad accepting the completion of any load
handleVRMLoad_noIdCheck(w, currentLoadingId) ==
  LET w1 == [w EXCEPT !.v.children = Append(@, Child("vrm", currentLoadingId)),
                      !.v.vrmRef = currentLoadingId]
  IN  [loadBreathingAnimation(w1, currentLoadingId)
         EXCEPT !.v.promise[currentLoadingId] = "resolved"]

\* handleVRMLoad(gltf) of the load numbered currentLoadingId
handleVRMLoad(w, currentLoadingId) ==
  IF currentLoadingId # w.v.loadingId
  THEN [w EXCEPT !.v.promise[currentLoadingId] = "rejected"]
  ELSE LET w1 == [w EXCEPT !.v.children = Append(@, Child("vrm", currentLoadingId)),
                           !.v.vrmRef = currentLoadingId]
       IN  [loadBreathingAnimation(w1, currentLoadingId)
              EXCEPT !.v.promise[currentLoadingId] = "resolved"]

\* loadVRM(arrayBufferOrUrl) up to the point where the request goes out;
\* from is "url", "buffer" or "empty" (the empty string)
loadVRM(w, from) ==
  LET currentLoadingId == w.v.loadingId + 1
      w1 == [w EXCEPT !.v.loadingId = currentLoadingId,
                      !.v.activeBlobUrls = {},
                      !.v.children = RemoveAll(@, childrenToRemove(@)),
                      !.v.vrmRef = 0,
                      !.o.cleared = FALSE]
  IN  CASE from = "empty" ->
             [w1 EXCEPT !.v.promise = Put(@, currentLoadingId, "resolved")]
        [] from = "url" ->
             [w1 EXCEPT !.v.promise = Put(@, currentLoadingId, "pending"),
                        !.v.gltfLoads = @ \cup {currentLoadingId}]
        [] OTHER ->
             [w1 EXCEPT !.v.promise = Put(@, currentLoadingId, "pending"),
                        !.v.activeBlobUrls = {currentLoadingId},
                        !.v.gltfLoads = @ \cup {currentLoadingId}]

\* playAnimation(clip)
playAnimation(w, clip) ==
  IF w.v.vrmRef = 0 THEN w
  ELSE LET mixer == IF w.v.mixerRef = 0 THEN w.v.vrmRef ELSE w.v.mixerRef
       IN  [w EXCEPT !.v.mixerRef = mixer,
                     !.v.currentAnimation = [mixer |-> mixer, clip |-> clip],
                     !.o.played = mixer]

\* the onLoad callback of loadBreathingAnimation(vrm)
breathingLoaded(w, model) ==
  [w EXCEPT !.v.loadedAnimations = Put(@, BreathingIdle, model),
            !.v.mixerRef = model,
            !.v.currentAnimation = [mixer |-> model, clip |-> model],
            !.o.played = model]

\* loadAnimation(animationPath) up to the point where it plays the cached
\* clip or the request goes out
loadAnimation(w, animationPath) ==
  IF w.v.vrmRef = 0 THEN [w EXCEPT !.o.threw = TRUE]
  ELSE IF animationPath \in DOMAIN w.v.loadedAnimations
  THEN playAnimation(w, w.v.loadedAnimations[animationPath])
  ELSE [w EXCEPT !.v.fbxLoads = @ \cup {[path |-> animationPath, vrm |-> 0]}]

\* the onLoad callback of loadAnimation(animationPath): the clip is remapped
\* for the model displayed at that moment (vrmRef.current!), which raises a
\* TypeError when there is none
animationLoaded(w, animationPath) ==
  IF w.v.vrmRef = 0 THEN [w EXCEPT !.o.threw = TRUE]
  ELSE playAnimation([w EXCEPT !.v.loadedAnimations =
                                  Put(@, animationPath, w.v.vrmRef)],
                     w.v.vrmRef)

\* animate(): one frame
animate(w) == [w EXCEPT !.o.updated = w.v.mixerRef]

-----------------------------------------------------------------------------
(* Specification of the VRM viewer *)

\* the controller is constructed on an avatar without a humanoid and left
\* alone
ControllerAside ==
  /\ vrm = [humanoid |-> FALSE, bones |-> {}]
  /\ quat = Constructed.quat
  /\ mode = Constructed.mode
  /\ boneHelpers = Constructed.boneHelpers
  /\ boneLines = Constructed.boneLines
  /\ helperGroup = Constructed.helperGroup
  /\ transformControl = Constructed.transformControl
  /\ ikTargets = Constructed.ikTargets
  /\ sceneChildren = Constructed.sceneChildren
  /\ clickListeners = Constructed.clickListeners
  /\ undisposed = Constructed.undisposed
  /\ transformDragging = Constructed.transformDragging
  /\ threw = Constructed.threw
  /\ again = FALSE
  /\ trace = << >>

InitViewer ==
  /\ ControllerAside
  /\ OutsideInit
  /\ lastOp = "mount"

\* the owner calls loadVRM
LoadVRM(from) ==
  /\ viewer.loadingId < MaxLoads
  /\ ViewerBecomes(loadVRM(Vw, from), "loadVRM")

\* the owner calls clearScene
ClearScene == ViewerBecomes(clearScene(Vw), "clearScene")

\* the GLTF loader delivers the model of load id
GLTFLoaded(id) ==
  /\ id \in viewer.gltfLoads
  /\ ViewerBecomes(handleVRMLoad([Vw EXCEPT !.v.gltfLoads = @ \ {id}], id),
                   "handleVRMLoad")

\* the GLTF loader reports an error for load id
GLTFError(id) ==
  /\ id \in viewer.gltfLoads
  /\ ViewerBecomes([Vw EXCEPT !.v.gltfLoads = @ \ {id},
                              !.v.promise[id] = "rejected"], "loadError")

\* the FBX loader delivers the animation of request r
FBXLoaded(r) ==
  /\ r \in viewer.fbxLoads
  /\ LET w == [Vw EXCEPT !.v.fbxLoads = @ \ {r}]
     IN  IF r.vrm # 0
         THEN ViewerBecomes(breathingLoaded(w, r.vrm), "breathingLoaded")
         ELSE ViewerBecomes(animationLoaded(w, r.path), "animationLoaded")

\* the FBX loader reports an error for request r: it is logged
FBXError(r) ==
  /\ r \in viewer.fbxLoads
  /\ ViewerBecomes([Vw EXCEPT !.v.fbxLoads = @ \ {r}], "animationError")

\* the owner calls loadAnimation
LoadAnimation(animationPath) ==
  /\ [path |-> animationPath, vrm |-> 0] \notin viewer.fbxLoads
  /\ ViewerBecomes(loadAnimation(Vw, animationPath), "loadAnimation")

\* the browser runs a frame of the render loop
Animate == ViewerBecomes(animate(Vw), "animate")

NextViewer ==
  \/ \E from \in {"url", "buffer", "empty"} : LoadVRM(from)
  \/ ClearScene
  \/ \E id \in 1..MaxLoads : GLTFLoaded(id)
  \/ \E id \in 1..MaxLoads : GLTFError(id)
  \/ \E r \in viewer.fbxLoads : FBXLoaded(r)
  \/ \E r \in viewer.fbxLoads : FBXError(r)
  \/ \E animationPath \in {BreathingIdle, OtherAnimation} :
       LoadAnimation(animationPath)
  \/ Animate

SpecViewer == InitViewer /\ [][NextViewer]_vars

-----------------------------------------------------------------------------
(* The avatar page: recording sessions, lip-sync and blinking             *)

\* at most this many times is startRecording called
MaxSessions == 3

\* the analyser has this many frequency bins (fftSize 256)
frequencyBinCount == 128

\* the sums the bins of one spectrum can add up to
SpectrumSums == 0..(255 * frequencyBinCount)

Min(a, b) == IF a < b THEN a ELSE b
Max(a, b) == IF a > b THEN a ELSE b

\* mouthValue without Math.min and Math.max
MouthValue_unclamped(sum) == sum - 5 * frequencyBinCount

\* mouthValue = Math.min(Math.max((average - 5) / 50, 0), 1), in parts of
\* WeightScale, for average = sum / frequencyBinCount
MouthValue(sum) ==
  Min(Max(sum - 5 * frequencyBinCount, 0), WeightScale)

\* steps of a closing or opening of the eyes
steps == 10

\* value = currentStep / steps, in parts of WeightScale
BlinkValue(step) == (step * WeightScale) \div steps

\* vrmViewerRef.current.setExpression(name, value)
setExpression(p, name, value) ==
  [p EXCEPT !.expressions[name] = value,
            !.pushed = Append(@, [name |-> name, value |-> value])]

\* the sequence without the entries equal to x
Without(seq, x) == SelectSeq(seq, LAMBDA y : y # x)

\* animateVoice of session id, reading a spectrum that adds up to sum
animateVoice(p, id, sum) ==
  [setExpression(p, "aa", MouthValue(sum)) EXCEPT !.animationFrameRef = id]

\* startRecording() up to the await of getUserMedia
startRecording(p) ==
  [p EXCEPT !.calls = @ + 1, !.requests = @ \cup {p.calls + 1}]

\* startRecording() from the moment getUserMedia resolves: recorder,
\* analyser and lip-sync loop are made, the loop runs once, the recorder
\* starts
microphoneGranted(p, id, sum) ==
  LET p1 == [p EXCEPT !.requests = @ \ {id},
                      !.tracks = @ \cup {id},
                      !.mediaRecorderRef = id,
                      !.loops = Append(@, id)]
      p2 == animateVoice(p1, id, sum)
  IN  [p2 EXCEPT !.recorders = Put(@, id, "recording"),
                 !.isRecording = TRUE]

\* startRecording() when getUserMedia rejects: the error is logged and an
\* alert shown
microphoneRefused(p, id) == [p EXCEPT !.requests = @ \ {id}]

\* stopRecording(): the recorder the ref names is told to stop, which puts
\* its stop event in the queue
stopRecording(p) ==
  IF p.mediaRecorderRef # 0 /\ p.isRecording
  THEN [p EXCEPT !.recorders[p.mediaRecorderRef] = "stopping",
                 !.isRecording = FALSE]
  ELSE p

\* handleToggleRecording()
handleToggleRecording(p) ==
  IF p.isRecording THEN stopRecording(p) ELSE startRecording(p)

\* mediaRecorder.onstop of session id up to the await of the transcription:
\* the session's loop is switched off, the frame the ref names is
\* cancelled, the mouth is closed
onstop(p, id) ==
  LET p1 == [p EXCEPT !.loops = Without(@, id)]
      p2 == IF p1.animationFrameRef # 0
            THEN [p1 EXCEPT !.loops = Without(@, p1.animationFrameRef),
                            !.animationFrameRef = 0]
            ELSE p1
  IN  [setExpression(p2, "aa", 0) EXCEPT !.recorders[id] = "inactive",
                                         !.awaiting = @ \cup {id}]

\* mediaRecorder.onstop of session id after the transcription has come
\* back or failed: the recording is played and the stream's tracks stop
onstopResumed(p, id) ==
  [p EXCEPT !.awaiting = @ \ {id}, !.tracks = @ \ {id}]

RECURSIVE RunLoops(_, _, _)
\* one animation frame: the scheduled lip-sync loops run in the order they
\* were scheduled in, loop i reading sums[i]
RunLoops(p, sums, i) ==
  IF i > Len(p.loops) THEN p
  ELSE RunLoops(animateVoice(p, p.loops[i], sums[i]), sums, i + 1)

\* triggerBlink(): the closing interval is set
triggerBlink(p) == [p EXCEPT !.blink = [phase |-> "closing", step |-> 0]]

\* a tick of closeInterval
closeTick(p) ==
  LET currentStep == p.blink.step + 1
      p1 == setExpression(p, "blink", BlinkValue(currentStep))
  IN  IF currentStep >= steps
      THEN [p1 EXCEPT !.blink = [phase |-> "closed", step |-> currentStep]]
      ELSE [p1 EXCEPT !.blink.step = currentStep]

\* the timeout that keeps the eyes closed fires: the opening interval is set
startOpening(p) == [p EXCEPT !.blink = [phase |-> "opening", step |-> steps]]

\* a tick of openInterval
openTick(p) ==
  LET openStep == p.blink.step - 1
      p1 == setExpression(p, "blink", BlinkValue(openStep))
  IN  IF openStep <= 0
      THEN [p1 EXCEPT !.blink = [phase |-> "idle", step |-> 0]]
      ELSE [p1 EXCEPT !.blink.step = openStep]

-----------------------------------------------------------------------------
(* Specification of the recording sessions of the avatar page *)

\* the page, with nothing pushed yet by the operation that is to run
Pg == [page EXCEPT !.pushed = << >>]

\* the next state of the page is the record p, reached by operation op
PageBecomes(p, op) ==
  /\ page' = p
  /\ lastOp' = op
  /\ UNCHANGED controller
  /\ UNCHANGED << viewer, observed, chat >>

\* the spectrum sums the frames of this specification read: silence, the
\* two ends of the ramp and its middle, the loudest signal
Loudness == { 0, 5 * frequencyBinCount, 30 * frequencyBinCount,
              55 * frequencyBinCount, 255 * frequencyBinCount }

InitPage ==
  /\ ControllerAside
  /\ OutsideInit
  /\ lastOp = "mount"

\* a click on the record button
ToggleRecording ==
  /\ page.isRecording \/ page.calls < MaxSessions
  /\ PageBecomes(handleToggleRecording(Pg),
                 IF page.isRecording THEN "stopRecording" ELSE "startRecording")

\* the browser grants request id the microphone
MicrophoneGranted(id, sum) ==
  /\ id \in page.requests
  /\ PageBecomes(microphoneGranted(Pg, id, sum), "microphoneGranted")

\* the browser or the user refuses request id
MicrophoneRefused(id) ==
  /\ id \in page.requests
  /\ PageBecomes(microphoneRefused(Pg, id), "microphoneRefused")

\* the stop event of recorder id is delivered
RecorderStopped(id) ==
  /\ id \in DOMAIN page.recorders
  /\ page.recorders[id] = "stopping"
  /\ PageBecomes(onstop(Pg, id), "onstop")

\* the transcription request of session id has come back or failed
Transcribed(id) ==
  /\ id \in page.awaiting
  /\ PageBecomes(onstopResumed(Pg, id), "onstopResumed")

\* the browser runs an animation frame while lip-sync loops are scheduled
VoiceFrame(sums) ==
  /\ page.loops # << >>
  /\ PageBecomes(RunLoops(Pg, sums, 1), "frame")

NextPage ==
  \/ ToggleRecording
  \/ \E id \in 1..MaxSessions, sum \in Loudness : MicrophoneGranted(id, sum)
  \/ \E id \in 1..MaxSessions : MicrophoneRefused(id)
  \/ \E id \in 1..MaxSessions : RecorderStopped(id)
  \/ \E id \in 1..MaxSessions : Transcribed(id)
  \/ \E sums \in [1..Len(page.loops) -> Loudness] : VoiceFrame(sums)

SpecPage == InitPage /\ [][NextPage]_vars

-----------------------------------------------------------------------------
(* Specification of the expression weights: one recording session with    *)
(* its lip-sync loop, and the idle blink                                    *)

\* the spectrum sums a frame reads here: every whole average from 0 to 255
\* and the sums next to the two ends of the ramp
FaceSums ==
  { a * frequencyBinCount : a \in 0..255 }
    \cup { 5 * frequencyBinCount - 1, 5 * frequencyBinCount + 1,
           55 * frequencyBinCount - 1, 55 * frequencyBinCount + 1 }

\* a session is recording and its loop has run once, on a faint signal
InitFace ==
  /\ ControllerAside
  /\ viewer = ViewerMounted
  /\ observed = NothingObserved
  /\ chat = ChatMounted("thread")
  /\ page = microphoneGranted(startRecording(PageMounted), 1,
                              5 * frequencyBinCount)
  /\ lastOp = "microphoneGranted"

\* the browser runs an animation frame of the session's lip-sync loop
LipSyncFrame(sum) ==
  /\ Len(page.loops) = 1
  /\ PageBecomes(RunLoops(Pg, << sum >>, 1), "frame")

\* the blink timer fires; the eyes are open, as a blink lasts a quarter of
\* a second and the timer waits two seconds at least
TriggerBlink ==
  /\ page.blink.phase = "idle"
  /\ PageBecomes(triggerBlink(Pg), "triggerBlink")

\* closeInterval ticks
CloseTick ==
  /\ page.blink.phase = "closing"
  /\ PageBecomes(closeTick(Pg), "closeTick")

\* the eyes have been closed for 50 ms
StartOpening ==
  /\ page.blink.phase = "closed"
  /\ PageBecomes(startOpening(Pg), "startOpening")

\* openInterval ticks
OpenTick ==
  /\ page.blink.phase = "opening"
  /\ PageBecomes(openTick(Pg), "openTick")

NextFace ==
  \/ \E sum \in FaceSums : LipSyncFrame(sum)
  \/ TriggerBlink
  \/ CloseTick
  \/ StartOpening
  \/ OpenTick

SpecFace == InitFace /\ [][NextFace]_vars

-----------------------------------------------------------------------------
(* The chat submit handlers                                                *)

\* at most this many submissions are made
MaxSubmits == 2

RECURSIVE TrimStart(_)
\* the text without its leading blanks
TrimStart(text) ==
  IF text # << >> /\ Head(text) = " " THEN TrimStart(Tail(text)) ELSE text

RECURSIVE TrimEnd(_)
\* the text without its trailing blanks
TrimEnd(text) ==
  IF text # << >> /\ text[Len(text)] = " "
  THEN TrimEnd(SubSeq(text, 1, Len(text) - 1))
  ELSE text

\* String.prototype.trim on a text given as its sequence of characters
Trim(text) == TrimEnd(TrimStart(text))

\* the system message, with or without retrieved context
SystemMessage(ragContext) ==
  [role |-> "system",
   content |-> IF ragContext THEN << "prompt", "context" >> ELSE << "prompt" >>]

\* a message as the chat server is sent it
Message(role, content) == [role |-> role, content |-> content]

\* role and content of every row of the history
HistoryMessages(history) ==
  [i \in 1..Len(history) |-> Message(history[i].role, history[i].content)]

\* db.createMessage: one more row of the thread, the newest by created_at
createMessage(c, role, content) ==
  [c EXCEPT !.messages = Append(@, Message(role, content))]

\* setTimeout(() => setStatus(kind), ...) of submission id
setTimer(c, kind, id) == [c EXCEPT !.timers = @ \cup {[kind |-> kind, of |-> id]}]

\* ChatPage.handleSubmit up to the await of db.createMessage; a submission
\* carries the handler's locals and, as earlier, the rows the thread held
\* when its user message was stored
ChatPage_handleSubmit(c, id) ==
  IF Trim(c.messageInput) = << >> THEN c
  ELSE [c EXCEPT !.status = "submitted",
                 !.submits = id,
                 !.runs = Put(@, id, [pc |-> "createMessage",
                                      userMessage |-> Trim(c.messageInput),
                                      ragContext |-> FALSE,
                                      earlier |-> c.messages,
                                      sent |-> << >>,
                                      fullContent |-> << >>])]

\* ChatPage.handleSubmit from the stored user message to the await of the
\* retrieval query
ChatPage_messageCreated(c, id) ==
  LET c1 == createMessage(c, "user", c.runs[id].userMessage)
  IN  [setTimer(c1, "streaming", id)
         EXCEPT !.messageInput = << >>,
                !.runs[id].earlier = c.messages,
                !.runs[id].pc = "rag"]

\* ChatPage.handleSubmit from the answer, or the failure, of the retrieval
\* query to the await of db.getMessagesForThread
ChatPage_ragAnswered(c, id, hasContext) ==
  [c EXCEPT !.runs[id].ragContext = hasContext, !.runs[id].pc = "history"]

\* ChatPage.handleSubmit from the history read back to the await of the
\* chat request
ChatPage_historyRead(c, id) ==
  LET history == c.messages
      chatMessages ==
        << SystemMessage(c.runs[id].ragContext) >>
          \o HistoryMessages(history)
          \o << Message("user", c.runs[id].userMessage) >>
  IN  [c EXCEPT !.runs[id].sent = chatMessages, !.runs[id].pc = "chat"]

\* the catch block of ChatPage.handleSubmit
ChatPage_failed(c, id) ==
  [c EXCEPT !.status = "error", !.runs[id].pc = "done"]

\* ChatPage.handleSubmit from the response of the chat server to the first
\* read of its body
ChatPage_chatAnswered(c, id, ok) ==
  IF ok THEN [c EXCEPT !.runs[id].pc = "read"] ELSE ChatPage_failed(c, id)

\* ChatPage.handleSubmit from the end of the body to the await of
\* db.createMessage for the reply; a read that fails is caught
ChatPage_bodyRead(c, id, ok, fullContent) ==
  IF ok THEN [c EXCEPT !.runs[id].fullContent = fullContent,
                       !.runs[id].pc = "store"]
  ELSE ChatPage_failed(c, id)

\* ChatPage.handleSubmit from the stored reply to its end
ChatPage_replyStored(c, id) ==
  [createMessage(c, "assistant", c.runs[id].fullContent)
     EXCEPT !.status = "ready", !.runs[id].pc = "done"]

\* ChatPrompt.handleSubmit up to the await of the retrieval query
ChatPrompt_handleSubmit(c, id) ==
  IF Trim(c.messageInput) = << >> THEN c
  ELSE [setTimer(c, "streaming", id)
          EXCEPT !.status = "submitted",
                 !.submits = id,
                 !.messageInput = << >>,
                 !.runs = Put(@, id, [pc |-> "rag",
                                      userMessage |-> Trim(c.messageInput),
                                      ragContext |-> FALSE,
                                      earlier |-> << >>,
                                      sent |-> << >>,
                                      fullContent |-> << >>])]

\* ChatPrompt.handleSubmit from the answer, or the failure, of the
\* retrieval query to the await of the chat request
ChatPrompt_ragAnswered(c, id, hasContext) ==
  [c EXCEPT !.runs[id].ragContext = hasContext,
            !.runs[id].sent = << SystemMessage(hasContext),
                                 Message("user", c.runs[id].userMessage) >>,
            !.runs[id].pc = "chat"]

\* the catch block of ChatPrompt.handleSubmit
ChatPrompt_failed(c, id) ==
  [setTimer(c, "ready", id) EXCEPT !.status = "error", !.runs[id].pc = "done"]

\* ChatPrompt.handleSubmit from the response of the chat server to the
\* first read of its body
ChatPrompt_chatAnswered(c, id, ok) ==
  IF ok THEN [c EXCEPT !.runs[id].pc = "read"] ELSE ChatPrompt_failed(c, id)

\* ChatPrompt.handleSubmit from the end of the body to the await of the
\* speech request
ChatPrompt_bodyRead(c, id, ok, fullContent) ==
  IF ok THEN [c EXCEPT !.runs[id].fullContent = fullContent,
                       !.runs[id].pc = "tts"]
  ELSE ChatPrompt_failed(c, id)

\* ChatPrompt.handleSubmit from the response of the speech server to its
\* end
ChatPrompt_ttsAnswered(c, id, ok) ==
  IF ok THEN [c EXCEPT !.status = "ready", !.runs[id].pc = "done"]
  ELSE ChatPrompt_failed(c, id)

\* a timer set by a handler fires
timerFired(c, timer) ==
  [c EXCEPT !.status = timer.kind, !.timers = @ \ {timer}]

-----------------------------------------------------------------------------
(* Specification of the chat submit handlers *)

\* what the user types before submitting: nothing, a blank, a word, and a
\* word with blanks around it
Texts == { << >>, << " " >>, << "h", "i" >>, << " ", "o", "k", " " >> }

\* the reply the chat server streams
Reply == << "y", "a" >>

\* the next state of the chat surface is the record c, reached by
\* operation op
ChatBecomes(c, op) ==
  /\ chat' = c
  /\ lastOp' = op
  /\ UNCHANGED controller
  /\ UNCHANGED << viewer, observed, page >>

InitChat ==
  /\ ControllerAside
  /\ viewer = ViewerMounted
  /\ observed = NothingObserved
  /\ page = PageMounted
  /\ chat \in { ChatMounted("thread"), ChatMounted("prompt") }
  /\ lastOp = "mount"

\* submission id of the chat surface is at position pc
At(id, pc) == id \in DOMAIN chat.runs /\ chat.runs[id].pc = pc

\* the user types text and submits the form
Submit(text) ==
  /\ chat.submits < MaxSubmits
  /\ LET c == [chat EXCEPT !.messageInput = text]
         id == chat.submits + 1
     IN  IF chat.variant = "thread"
         THEN ChatBecomes(ChatPage_handleSubmit(c, id), "submit")
         ELSE ChatBecomes(ChatPrompt_handleSubmit(c, id), "submit")

\* the database has stored the user message of submission id
MessageCreated(id) ==
  /\ At(id, "createMessage")
  /\ ChatBecomes(ChatPage_messageCreated(chat, id), "messageCreated")

\* the retrieval server has answered submission id, or failed to
RagAnswered(id, hasContext) ==
  /\ At(id, "rag")
  /\ IF chat.variant = "thread"
     THEN ChatBecomes(ChatPage_ragAnswered(chat, id, hasContext), "ragAnswered")
     ELSE ChatBecomes(ChatPrompt_ragAnswered(chat, id, hasContext), "ragAnswered")

\* the database has read back the thread for submission id
HistoryRead(id) ==
  /\ At(id, "history")
  /\ ChatBecomes(ChatPage_historyRead(chat, id), "historyRead")

\* the chat server has answered submission id, or could not be reached
ChatAnswered(id, ok) ==
  /\ At(id, "chat")
  /\ IF chat.variant = "thread"
     THEN ChatBecomes(ChatPage_chatAnswered(chat, id, ok), "chatAnswered")
     ELSE ChatBecomes(ChatPrompt_chatAnswered(chat, id, ok), "chatAnswered")

\* the body of the chat response of submission id has ended, or broken off
BodyRead(id, ok) ==
  /\ At(id, "read")
  /\ IF chat.variant = "thread"
     THEN ChatBecomes(ChatPage_bodyRead(chat, id, ok, Reply), "bodyRead")
     ELSE ChatBecomes(ChatPrompt_bodyRead(chat, id, ok, Reply), "bodyRead")

\* the database has stored the reply of submission id
ReplyStored(id) ==
  /\ At(id, "store")
  /\ ChatBecomes(ChatPage_replyStored(chat, id), "replyStored")

\* the speech server has answered submission id, or failed
TTSAnswered(id, ok) ==
  /\ At(id, "tts")
  /\ ChatBecomes(ChatPrompt_ttsAnswered(chat, id, ok), "ttsAnswered")

\* a timer fires; of the timers of one submission the one for "streaming",
\* set earlier and for 200 ms, fires before the one for "ready", set for
\* 2000 ms
TimerFired(timer) ==
  /\ timer \in chat.timers
  /\ timer.kind = "ready" =>
       [kind |-> "streaming", of |-> timer.of] \notin chat.timers
  /\ ChatBecomes(timerFired(chat, timer), "timerFired")

NextChat ==
  \/ \E text \in Texts : Submit(text)
  \/ \E id \in 1..MaxSubmits : MessageCreated(id)
  \/ \E id \in 1..MaxSubmits, hasContext \in BOOLEAN : RagAnswered(id, hasContext)
  \/ \E id \in 1..MaxSubmits : HistoryRead(id)
  \/ \E id \in 1..MaxSubmits, ok \in BOOLEAN : ChatAnswered(id, ok)
  \/ \E id \in 1..MaxSubmits, ok \in BOOLEAN : BodyRead(id, ok)
  \/ \E id \in 1..MaxSubmits : ReplyStored(id)
  \/ \E id \in 1..MaxSubmits, ok \in BOOLEAN : TTSAnswered(id, ok)
  \/ \E timer \in chat.timers : TimerFired(timer)

SpecChat == InitChat /\ [][NextChat]_vars

(* Properties *)

\* the events of a trace
Events(tr) == { tr[i] : i \in 1..Len(tr) }

TeardownEvents ==
  { "clearGroup", "clearMarkers", "dropOverlay", "clearTargets",
    "detachBone", "detachMarker", "detachNothing", "removeObjectChange",
    "removeRoot", "disposeWidget", "removeFKClick", "removeIKClick" }

SetupEvents ==
  { "addMarker", "addOverlay", "newWidget", "addRoot", "addFKClick", "addIKClick" }

\* the click listener of a mode
ListenerOf(m) ==
  CASE m = "fk" -> {"onFKClick"} [] m = "ik" -> {"onIKClick"} [] OTHER -> {}

\* marker k of the map is a forward-kinematics marker of bone k
IsFKMarker(k) == boneHelpers[k].boneName = k /\ boneHelpers[k].ikBoneName = "none"

\* marker k of the map is an end-effector marker of bone k
IsIKMarker(k) == boneHelpers[k].ikBoneName = k /\ boneHelpers[k].boneName = "none"

\* C1: the mode is always one of off, fk, ik, it is off right after
\* construction, and only setMode changes it: update, cleanup, dispose,
\* clicks, drags and solver runs leave it as it is.
C1_ModeChangesOnlyInSetMode ==
  /\ mode = "off"
  /\ [][ /\ mode' \in {"off", "fk", "ik"}
         /\ (lastOp' # "setMode" => mode' = mode) ]_vars

\* a drag has just run the solver, and the mode is still ik
C1_Witness ==
  /\ lastOp = "dragTranslate"
  /\ "solve" \in Events(trace)
  /\ mode = "ik"

\* C2: every setMode(m), whatever the old and the new mode, first removes
\* the markers, the overlay, the widget, the IK targets and both click
\* listeners and only then builds the helpers of mode m; nothing of the old
\* mode survives.
C2_TeardownThenSetup ==
  [][ lastOp' = "setMode" =>
        /\ \E k \in 0..Len(trace') :
             /\ \A i \in 1..k : trace'[i] \in TeardownEvents
             /\ \A i \in (k + 1)..Len(trace') : trace'[i] \in SetupEvents
             /\ { "clearGroup", "clearMarkers", "dropOverlay", "clearTargets",
                  "removeFKClick", "removeIKClick" }
                  \subseteq { trace'[i] : i \in 1..k }
             /\ transformControl.exists =>
                  { "removeRoot", "disposeWidget" } \subseteq { trace'[i] : i \in 1..k }
        /\ \A k \in DOMAIN boneHelpers' :
             /\ boneHelpers'[k].position = WorldPos(quat', k)
             /\ mode' = "fk" => /\ boneHelpers'[k].boneName = k
                                /\ boneHelpers'[k].color = DefaultColor
             /\ mode' = "ik" => boneHelpers'[k].ikBoneName = k
             /\ mode' # "off"
        /\ ikTargets' = EmptyMap
        /\ clickListeners' \subseteq ListenerOf(mode')
        /\ transformControl'.exists =>
             /\ transformControl'.object = NoObject
             /\ ~transformControl'.dragging
             /\ transformControl'.mode = (IF mode' = "fk" THEN "rotate" ELSE "translate")
        /\ Count(sceneChildren', "TransformControlsRoot")
             = (IF transformControl'.exists THEN 1 ELSE 0)
        /\ Len(helperGroup')
             = Cardinality(DOMAIN boneHelpers') + (IF boneLines'.exists THEN 1 ELSE 0)
    ]_vars

\* setMode("ik") has just replaced a widget that was attached to a bone
C2_Witness ==
  /\ lastOp = "setMode"
  /\ mode = "ik"
  /\ "detachBone" \in Events(trace)
  /\ "addMarker" \in Events(trace)

\* C3: at most one mode's machinery is attached: never both click
\* listeners, at most one widget root in the scene, every marker belongs to
\* the current mode, and in ik mode nothing of fk is left (and vice versa),
\* so the rotate widget and the solver never both write bone rotations.
C3_OneModeAttached ==
  /\ ~({"onFKClick", "onIKClick"} \subseteq clickListeners)
  /\ clickListeners \subseteq ListenerOf(mode)
  /\ Count(sceneChildren, "TransformControlsRoot") <= 1
  /\ \A k \in DOMAIN boneHelpers :
       \/ mode = "fk" /\ IsFKMarker(k)
       \/ mode = "ik" /\ IsIKMarker(k)
  /\ mode = "ik" => /\ transformControl.mode # "rotate"
                    /\ transformControl.object.type # "bone"
  /\ mode = "fk" => /\ transformControl.mode # "translate"
                    /\ ~transformControl.objectChange
  /\ ~(transformControl.mode = "rotate" /\ transformControl.objectChange)

\* ik mode entered from fk mode with a bone picked and rotated: only the
\* machinery of ik is attached
C3_Witness ==
  /\ mode = "ik"
  /\ lastOp = "setMode"
  /\ "detachBone" \in Events(trace)
  /\ Posed(quat) # {}
  /\ clickListeners = {"onIKClick"}
  /\ transformControl.mode = "translate"

\* what the controller owns and touches, without the bookkeeping of the model
ctl == << quat, mode, boneHelpers, boneLines, helperGroup, transformControl,
          ikTargets, sceneChildren, clickListeners, transformDragging >>

\* every marker has the colour it was built with, nothing is picked and no
\* target is recorded
Fresh ==
  /\ \A k \in DOMAIN boneHelpers :
       /\ boneHelpers[k].position = WorldPos(quat, k)
       /\ mode = "fk" => boneHelpers[k].color = DefaultColor
       /\ mode = "ik" => \E i \in 1..Len(ikBones) :
                           ikBones[i] = [name |-> k, color |-> boneHelpers[k].color]
  /\ transformControl.object = NoObject
  /\ ~transformControl.dragging
  /\ ikTargets = EmptyMap

\* C4 as stated: setMode(m) with m the current mode changes nothing - the
\* markers, the highlight, the widget's attachment and the IK targets stay.
C4_NoOpIfUnchanged ==
  [][ lastOp' = "setMode" /\ mode' = mode =>
        /\ boneHelpers' = boneHelpers
        /\ transformControl' = transformControl
        /\ ikTargets' = ikTargets ]_vars

\* C4 amended: setMode(m) with m the current mode keeps the mode but still
\* tears down and rebuilds - the markers are new ones in their built
\* colour at the bones' positions, the widget is attached to nothing and
\* no IK target is recorded; only a setMode(m) right after a setMode(m)
\* leaves the controller as it was.
C4_RebuildsIfUnchanged ==
  [][ lastOp' = "setMode" /\ mode' = mode =>
        /\ Fresh'
        /\ lastOp = "setMode" => ctl' = ctl ]_vars

\* setMode("fk") in fk mode has just dropped the picked bone
C4_Witness ==
  /\ lastOp = "setMode"
  /\ mode = "fk"
  /\ "detachBone" \in Events(trace)
  /\ Fresh

\* the bones of mode m that the avatar has
PresentBones(m) ==
  CASE m = "fk" -> { b \in { boneNames[i] : i \in 1..Len(boneNames) } :
                       getNormalizedBoneNode(b) }
    [] m = "ik" -> { b \in { ikBones[i].name : i \in 1..Len(ikBones) } :
                       getNormalizedBoneNode(b) }
    [] OTHER -> {}

\* no helper at all: nothing in the group, no marker, overlay, widget root
\* or click listener
NoHelpers ==
  /\ helperGroup = << >>
  /\ boneHelpers = EmptyMap
  /\ ~boneLines.exists
  /\ Count(sceneChildren, "TransformControlsRoot") = 0
  /\ clickListeners = {}

\* one overlay, one widget root, one click listener, one marker per present
\* bone of the mode
OneOfEach ==
  /\ boneLines.exists
  /\ Count(helperGroup, "boneLines") = 1
  /\ Count(sceneChildren, "TransformControlsRoot") = 1
  /\ Cardinality(clickListeners) = 1
  /\ DOMAIN boneHelpers = PresentBones(mode)
  /\ \A k \in DOMAIN boneHelpers : Count(helperGroup, boneHelpers[k].name) = 1
  /\ Len(helperGroup) = Cardinality(DOMAIN boneHelpers) + 1

\* C5 as stated: after setMode(off); setMode(off) there is no helper, and
\* after setMode(m); setMode(m), m in {fk, ik}, there is exactly one
\* overlay, widget root, click listener and marker per present bone.
C5_OneOfEachAfterRepeat ==
  again /\ lastOp = "setMode" =>
    IF mode = "off" THEN NoHelpers ELSE OneOfEach

\* C5 amended: as stated on an avatar that has a humanoid; on an avatar
\* without one, setMode(m); setMode(m) leaves no helper at all.
C5_NoDuplicatesAfterRepeat ==
  again /\ lastOp = "setMode" =>
    IF mode = "off" \/ ~vrm.humanoid THEN NoHelpers ELSE OneOfEach

\* setMode("fk") twice in a row on an avatar with all twenty bones
C5_Witness ==
  /\ again
  /\ lastOp = "setMode"
  /\ mode = "fk"
  /\ Cardinality(DOMAIN boneHelpers) = 20
  /\ Len(helperGroup) = 21

\* C6: update() in mode off changes nothing: markers, overlay, helper
\* group, bone rotations, IK targets, widget and listeners stay as they are.
C6_UpdateOffIsNoOp ==
  [][ lastOp' = "update" /\ mode = "off" =>
        /\ ctl' = ctl
        /\ undisposed' = undisposed
        /\ trace' = << >> ]_vars

\* update() has run in mode off after a mode had been active
C6_Witness ==
  /\ lastOp = "update"
  /\ mode = "off"
  /\ undisposed > 0
  /\ Posed(quat) # {}

\* the connections both of whose bones the avatar has
PresentConnections ==
  { i \in 1..Len(connections) :
      getNormalizedBoneNode(connections[i][1]) /\ getNormalizedBoneNode(connections[i][2]) }

\* every marker sits at its bone
MarkersAtBones ==
  \A k \in DOMAIN boneHelpers : boneHelpers[k].position = WorldPos(quat, k)

\* the overlay has one segment per present connection, in the order of the
\* table, between the two bones' world positions
OverlayShowsSkeleton ==
  /\ Len(boneLines.positions) = Cardinality(PresentConnections)
  /\ \A i \in PresentConnections :
       LET j == Cardinality({ h \in PresentConnections : h <= i })
       IN  /\ j <= Len(boneLines.positions)
           /\ boneLines.positions[j] = << WorldPos(quat, connections[i][1]),
                                          WorldPos(quat, connections[i][2]) >>

C8_TeardownIsRepeatable ==
  [][ lastOp' \in {"cleanup", "dispose"} =>
        /\ ~threw'
        /\ lastOp' = lastOp => /\ ctl' = ctl
                               /\ undisposed' = undisposed ]_vars

\* cleanup() twice in a row on a controller that never had a mode
C8_Witness ==
  /\ again
  /\ lastOp = "cleanup"
  /\ mode = "off"
  /\ vrm.humanoid
  /\ undisposed = 0
  /\ ~threw

\* C9: after dispose() nothing of the controller is in the scene: no helper
\* group, marker, overlay or widget root, and no click listener on the canvas.
C9_DisposeEmptiesScene ==
  lastOp = "dispose" =>
    /\ sceneChildren = << >>
    /\ NoHelpers
    /\ ~transformControl.exists

\* dispose() has just removed an active mode's widget
C9_Witness ==
  /\ lastOp = "dispose"
  /\ mode # "off"
  /\ "disposeWidget" \in Events(trace)
  /\ sceneChildren = << >>

\* C10: once cleanup() or dispose() has returned, every geometry and
\* material allocated for markers and the overlay has been disposed.
C10_TeardownReleasesGeometry ==
  lastOp \in {"cleanup", "dispose"} => undisposed = 0

\* C11: setMode("fk") builds a marker for exactly the listed bones the
\* avatar has and setMode("ik") for exactly the end effectors it has; an
\* absent bone gets no marker and raises nothing, so the keys of the marker
\* map are always bones of the avatar.
C11_MarkersForPresentBones ==
  /\ DOMAIN boneHelpers \subseteq vrm.bones
  /\ ~threw
  /\ lastOp = "setMode" => DOMAIN boneHelpers = PresentBones(mode)

\* setMode("fk") on an avatar that lacks three of the twenty bones
C11_Witness ==
  /\ lastOp = "setMode"
  /\ mode = "fk"
  /\ Cardinality(vrm.bones) = 17
  /\ DOMAIN boneHelpers = vrm.bones

\* the bones of end effector e's chain that the avatar has, root first
PresentChain(e) == SelectSeq(chains[e], getNormalizedBoneNode)

\* C12: no operation raises, whatever bones the avatar lacks and whatever
\* the order of setMode, update, clicks, drags, cleanup and dispose; the
\* overlay holds a segment only for connections with both bones present,
\* and a solver call for a chain with fewer than two present bones rotates
\* no bone.
C12_NothingThrows ==
  /\ ~threw
  /\ [][ /\ ~threw'
         /\ boneLines'.exists =>
              Len(boneLines'.positions) = Cardinality(PresentConnections)
         /\ \A e \in DOMAIN chains :
              /\ lastOp' = "dragTranslate"
              /\ "solve" \in Events(trace')
              /\ transformControl.object.name = e
              /\ Len(PresentChain(e)) < 2
              => /\ quat' = quat
                 /\ "iteration" \notin Events(trace') ]_vars

\* the solver has been called for the left hand of an avatar that has
\* neither arm bone, after the marker was dragged away
C12_Witness ==
  /\ lastOp = "dragTranslate"
  /\ "solve" \in Events(trace)
  /\ vrm.bones = {"hips", "spine", "head", "leftHand"}
  /\ boneLines.exists
  /\ Len(boneLines.positions) = 1
  /\ ~threw

\* C13: a click that hits no marker changes nothing, in fk and in ik mode:
\* the widget stays attached to what it was attached to, the markers keep
\* their colours, targets and rotations stay, and nothing is raised.
C13_MissIsNoOp ==
  [][ lastOp' \in {"missFK", "missIK"} =>
        /\ ctl' = ctl
        /\ undisposed' = undisposed
        /\ trace' = << >>
        /\ ~threw' ]_vars

\* a click beside the markers while a rotated bone is selected
C13_Witness ==
  /\ lastOp = "missFK"
  /\ transformControl.object.type = "bone"
  /\ \E k \in DOMAIN boneHelpers :
       /\ boneHelpers[k].color = SelectedColor
       /\ transformControl.object.name = k
       /\ quat[k] # 0

\* the markers in the selected colour
Highlighted == { k \in DOMAIN boneHelpers : boneHelpers[k].color = SelectedColor }

\* C14: in fk mode a click that hits a marker selects the bone of the
\* nearest hit: that marker alone gets the selected colour, every other
\* one the default colour, and the rotate-only, local-space widget is
\* attached to the bone's own node, not to the marker; at any time in fk
\* mode at most one marker is highlighted, and it is the marker of the
\* bone the widget is attached to.
C14_ClickSelectsBone ==
  /\ [][ \A hit \in HumanBoneName :
           hit \in DOMAIN boneHelpers /\ FKClick(hit) =>
             /\ Highlighted' = {hit}
             /\ \A k \in DOMAIN boneHelpers' \ {hit} :
                  boneHelpers'[k].color = DefaultColor
             /\ DOMAIN boneHelpers' = DOMAIN boneHelpers
             /\ transformControl'.object = [type |-> "bone", name |-> hit]
             /\ transformControl'.mode = "rotate"
             /\ transformControl'.space = "local" ]_vars
  /\ [](mode = "fk" =>
          /\ Cardinality(Highlighted) <= 1
          /\ \A k \in Highlighted :
               transformControl.object = [type |-> "bone", name |-> k]
          /\ transformControl.object.type # "marker")

\* the hand has been picked after the lower arm had been picked and turned
C14_Witness ==
  /\ lastOp = "clickFK"
  /\ mode = "fk"
  /\ quat["leftLowerArm"] # 0
  /\ Highlighted = {"leftHand"}
  /\ transformControl.object = [type |-> "bone", name |-> "leftHand"]

\* the elements of a sequence
Range(seq) == { seq[i] : i \in 1..Len(seq) }

\* the positions of a trace at which an outer iteration starts
IterationStarts(tr) == { j \in 1..Len(tr) : tr[j] = "iteration" }

\* the positions of a trace at which a bone is rotated
RotationSteps(tr) == { j \in 1..Len(tr) : tr[j] \in HumanBoneName }

\* C15: in ik mode with the translate widget attached to the marker of end
\* effector e, every position change records the marker's position at that
\* moment as the target of e, overwriting an older one, and then runs the
\* solver once, for the chain of e and no other; a position change with
\* nothing attached records nothing and runs no solver.
C15_DragRecordsThenSolves ==
  [][ /\ \A e \in DOMAIN chains :
           transformControl.object = [type |-> "marker", name |-> e]
             /\ lastOp' = "dragMarker" =>
               /\ ikTargets' = Put(ikTargets, e, boneHelpers'[e].position)
               /\ Len(trace') >= 3
               /\ SubSeq(trace', 1, 3) = << "moveMarker", "recordTarget", "solve" >>
               /\ Count(trace', "recordTarget") = 1
               /\ Count(trace', "solve") = 1
               /\ \A j \in RotationSteps(trace') : trace'[j] \in Range(chains[e])
               /\ transformControl' = transformControl
               /\ transformControl.mode = "translate"
      /\ lastOp' = "objectChange" =>
           /\ ctl' = ctl
           /\ trace' = << >>
           /\ ~threw' ]_vars

\* the right foot's marker has been dragged on, its older target has been
\* overwritten and the solver has turned a leg bone
C15_Witness ==
  /\ lastOp = "dragMarker"
  /\ transformControl.object = [type |-> "marker", name |-> "rightFoot"]
  /\ ikTargets = [k \in {"rightFoot"} |-> boneHelpers["rightFoot"].position]
  /\ ikTargets["rightFoot"] = << -1, -5 >>
  /\ RotationSteps(trace) # {}
  /\ quat["rightLowerLeg"] = 0

\* C16: every solver call ends after at most ten outer iterations; an
\* iteration visits the bones from the second-to-last of the present chain
\* back toward the root and never the end effector, so a call rotates at
\* most 10 x (present chain length - 1) times.
C16_SolverIsBounded ==
  [][ \A e \in DOMAIN chains :
        transformControl.object = [type |-> "marker", name |-> e]
          /\ lastOp' = "dragMarker" =>
            LET bones == PresentChain(e)
                n == Len(bones)
                tr == trace'
            IN  /\ Cardinality(IterationStarts(tr)) <= iterations
                /\ Cardinality(RotationSteps(tr)) <= iterations * (n - 1)
                /\ n = 3 => Cardinality(RotationSteps(tr)) <= 20
                /\ \A j \in RotationSteps(tr) : tr[j] # e
                /\ \A i \in 4..Len(tr) :
                     /\ IterationStarts(tr) # {}
                     /\ LET start == CHOOSE j \in IterationStarts(tr) :
                                       /\ j <= i
                                       /\ \A h \in IterationStarts(tr) :
                                            h <= i => h <= j
                            k == i - start
                        IN  \/ k = 0
                            \/ /\ k \in 1..(n - 1)
                               /\ \/ tr[i] = bones[n - k]
                                  \/ /\ tr[i] = "closeEnough"
                                     /\ i < Len(tr) => tr[i + 1] = "iteration"
          ]_vars

\* a call for a whole three-bone chain has gone through all ten iterations
\* and rotated both bones in the last one
C16_Witness ==
  /\ lastOp = "dragMarker"
  /\ Cardinality(IterationStarts(trace)) = iterations
  /\ Len(trace) >= 2
  /\ trace[Len(trace)] = "leftUpperArm"
  /\ trace[Len(trace) - 1] = "leftLowerArm"

\* C17: once the end effector is within the threshold of the target, the
\* solver leaves the outer loop: after the distance check has succeeded no
\* further outer iteration is started.
C17_EarlyExitOfOuterLoop ==
  lastOp = "dragMarker" =>
    \A i \in 1..Len(trace) :
      trace[i] = "closeEnough" =>
        \A j \in (i + 1)..Len(trace) : trace[j] # "iteration"

\* C18: a solver call whose target is where the end effector already is
\* rotates no bone, for each of the four end effectors and in any pose.
C18_SolveAtTargetIsNoOp ==
  [][ \A e \in DOMAIN chains :
        /\ transformControl.object = [type |-> "marker", name |-> e]
        /\ lastOp' = "dragMarker"
        /\ Near(WorldPos(quat, e), boneHelpers'[e].position)
        => /\ quat' = quat
           /\ RotationSteps(trace') = {} ]_vars

\* the right foot, folded up by an earlier drag, has been given its own
\* position as the target: all ten iterations broke at the first check
C18_Witness ==
  /\ lastOp = "dragMarker"
  /\ transformControl.object = [type |-> "marker", name |-> "rightFoot"]
  /\ Len(PresentChain("rightFoot")) = 3
  /\ "rightFoot" \in DOMAIN ikTargets
  /\ ikTargets["rightFoot"] = WorldPos(quat, "rightFoot")
  /\ quat["rightLowerLeg"] # 0
  /\ RotationSteps(trace) = {}
  /\ Count(trace, "closeEnough") = iterations

\* C19: a solver call for end effector e changes the local rotation of no
\* bone but those of e's chain other than e; the end effector's own
\* rotation, every other bone, every marker position and the recorded
\* targets are as the drag left them, and a call that does not reach the
\* target reports nothing - the pose is what the last iteration left.
C19_SolverFrame ==
  [][ \A e \in DOMAIN chains :
        /\ transformControl.object = [type |-> "marker", name |-> e]
        /\ lastOp' = "dragMarker"
        => /\ \A b \in HumanBoneName :
                quat'[b] # quat[b] => b \in Range(chains[e]) \ {e}
           /\ DOMAIN boneHelpers' = DOMAIN boneHelpers
           /\ \A k \in DOMAIN boneHelpers \ {e} : boneHelpers'[k] = boneHelpers[k]
           /\ ikTargets' = Put(ikTargets, e, boneHelpers'[e].position)
           /\ boneHelpers'[e] =
                [boneHelpers[e] EXCEPT !.position = boneHelpers'[e].position]
           /\ << mode', boneLines', helperGroup', transformControl',
                 sceneChildren', clickListeners', transformDragging', undisposed' >>
                = << mode, boneLines, helperGroup, transformControl,
                     sceneChildren, clickListeners, transformDragging, undisposed >>
           /\ ~threw'
           /\ Range(trace') \subseteq
                { "moveMarker", "recordTarget", "solve", "iteration", "closeEnough" }
                  \cup (Range(chains[e]) \ {e}) ]_vars

\* the left hand has been sent to a point out of reach: ten iterations
\* have turned the arm, the hand is still away from the target and nothing
\* was raised
C19_Witness ==
  /\ lastOp = "dragMarker"
  /\ transformControl.object = [type |-> "marker", name |-> "leftHand"]
  /\ "leftHand" \in DOMAIN ikTargets
  /\ ~Near(WorldPos(quat, "leftHand"), ikTargets["leftHand"])
  /\ Cardinality(IterationStarts(trace)) = iterations
  /\ "closeEnough" \notin Range(trace)
  /\ quat["leftUpperArm"] # 0
  /\ quat["leftHand"] = 0
  /\ ~threw

\* the distance between two points of space
Distance(a, b) == ISqrt(DistanceSq(a, b))

\* the first present bone of end effector e's chain, and the length of the
\* present chain stretched out
ChainRoot(e) == PresentChain(e)[1]
ChainReach(e) ==
  Distance(WorldPosition([b \in HumanBoneName |-> Identity], e),
           WorldPosition([b \in HumanBoneName |-> Identity], ChainRoot(e)))

\* C20: for a chain of two or three bones and a target no farther from the
\* chain's root than the chain is long, the end effector is no farther
\* from the target after the solver's ten iterations than it was before
\* the call (up to ten thresholds, to allow for rounding).
C20_SolveDoesNotMoveAway ==
  [][ \A e \in DOMAIN chains :
        /\ transformControl.object = [type |-> "marker", name |-> e]
        /\ lastOp' = "dragMarker"
        /\ Len(PresentChain(e)) \in {2, 3}
        /\ Distance(ikTargets'[e], WorldPosition(quat, ChainRoot(e))) <= ChainReach(e)
        => Distance(WorldPosition(quat', e), ikTargets'[e])
             <= Distance(WorldPosition(quat, e), ikTargets'[e])
                  + 10 * (Scale \div ThresholdInv) ]_vars

\* the end effectors that have a marker in the map
MarkedEndEffectors ==
  { k \in DOMAIN boneHelpers : k \in DOMAIN chains /\ IsIKMarker(k) }

\* C21: recorded targets exist only while the mode is ik: the map is empty
\* in the modes off and fk, its keys are end effectors that have a marker,
\* an entry appears only in a step of a translate drag on that end
\* effector's marker, and every setMode, cleanup and dispose leaves the
\* map empty.
C21_TargetsOnlyInIK ==
  /\ [](/\ mode \in {"off", "fk"} => ikTargets = EmptyMap
        /\ DOMAIN ikTargets \subseteq MarkedEndEffectors)
  /\ [][ /\ \A e \in DOMAIN ikTargets' \ DOMAIN ikTargets :
              /\ lastOp' = "dragTranslate"
              /\ transformControl.dragging
              /\ transformControl.object = [type |-> "marker", name |-> e]
              /\ DOMAIN ikTargets' = DOMAIN ikTargets \cup {e}
         /\ lastOp' \in {"setMode", "cleanup", "dispose"} =>
              ikTargets' = EmptyMap ]_vars

\* a step of a translate drag on the left hand's marker has recorded the
\* first target, and the mode is ik
C21_Witness ==
  /\ lastOp = "dragTranslate"
  /\ mode = "ik"
  /\ transformControl.object = [type |-> "marker", name |-> "leftHand"]
  /\ DOMAIN ikTargets = {"leftHand"}
  /\ ikTargets["leftHand"] = boneHelpers["leftHand"].position
  /\ "recordTarget" \in Events(trace)

\* the mode the widget is put in by the setup of mode m
WidgetModeOf(m) ==
  CASE m = "fk" -> "rotate" [] m = "ik" -> "translate" [] OTHER -> "none"

\* C24: on an avatar with a humanoid the mode agrees with what is
\* attached: in the modes fk and ik the widget of that mode and the click
\* listener of that mode exist, and when neither a widget nor a click
\* listener exists the mode is off, also after a direct cleanup() or
\* dispose().
C24_ModeAgreesWithAttached ==
  vrm.humanoid =>
    /\ mode \in {"fk", "ik"} =>
         /\ transformControl.exists
         /\ transformControl.mode = WidgetModeOf(mode)
         /\ clickListeners = ListenerOf(mode)
    /\ ~transformControl.exists /\ clickListeners = {} => mode = "off"

\* C25: every "transform-dragging" event with detail true is followed by
\* one with detail false no later than the teardown of the widget: when
\* the last event dispatched on the canvas said true, the widget that
\* dispatched it still exists and is in a drag, so a listener that switches
\* the camera controls off on true is never left with them off.
C25_DragEndsBeforeTeardown ==
  transformDragging => transformControl.exists /\ transformControl.dragging

\* the models whose scenes are children of the viewer's scene, in order
ModelsInScene ==
  SelectSeq(viewer.children, LAMBDA c : c.kind = "vrm")

\* C22: only the load started last may install its model: at most one
\* model is in the scene, it is the model of the current load id and the
\* one the current-model reference names; a completion whose load id is
\* not the current one rejects its promise and leaves the scene and the
\* reference as they are.
C22_OnlyLatestLoadInstalls ==
  /\ [](/\ Len(ModelsInScene) <= 1
        /\ \A i \in 1..Len(ModelsInScene) :
             ModelsInScene[i].id = viewer.loadingId
        /\ viewer.vrmRef \in {0, viewer.loadingId}
        /\ viewer.vrmRef # 0 => ModelsInScene = << Child("vrm", viewer.vrmRef) >>)
  /\ [][ \A id \in viewer.gltfLoads \ viewer'.gltfLoads :
           lastOp' = "handleVRMLoad" /\ id # viewer.loadingId =>
             /\ viewer.promise[id] = "pending"
             /\ viewer'.promise[id] = "rejected"
             /\ viewer'.children = viewer.children
             /\ viewer'.vrmRef = viewer.vrmRef ]_vars

\* the model of the second load is displayed and animated, and the
\* completion of the first load has arrived after that and was turned away
C22_Witness ==
  /\ lastOp = "handleVRMLoad"
  /\ viewer.loadingId = 2
  /\ viewer.promise = [id \in {1, 2} |-> IF id = 1 THEN "rejected" ELSE "resolved"]
  /\ viewer.vrmRef = 2
  /\ viewer.mixerRef = 2
  /\ ModelsInScene = << Child("vrm", 2) >>

\* C26: a mixer that is held is bound to the scene of the model displayed
\* now: after a model is replaced or removed, in whatever order the idle
\* animations of the old and the new model arrive, a frame updates no
\* mixer, and playAnimation plays on no mixer, of a model that is no
\* longer displayed.
C26_MixerOfDisplayedModel ==
  /\ viewer.mixerRef # 0 => viewer.mixerRef = viewer.vrmRef
  /\ lastOp = "animate" => observed.updated \in {0, viewer.vrmRef}
  /\ lastOp \in {"loadAnimation", "animationLoaded", "breathingLoaded"} =>
       observed.played \in {0, viewer.vrmRef}

\* C27: after clearScene() no model is displayed until loadVRM is called
\* again: the current-model reference is null and the scene holds no
\* model, also when a load started before clearScene completes after it.
C27_ClearedUntilNextLoad ==
  observed.cleared => viewer.vrmRef = 0 /\ ModelsInScene = << >>

\* the sessions whose recorder is recording
Recording ==
  { id \in DOMAIN page.recorders : page.recorders[id] = "recording" }

\* C28: at most one recording session is live: no second request for the
\* microphone, recorder or lip-sync loop is started while one is pending
\* or recording, the recorder that records is the one the next toggle
\* stops, and once every stop has been worked off no microphone stream and
\* no lip-sync loop is left running.
C28_OneLiveSession ==
  /\ Cardinality(page.requests) + Cardinality(Recording) <= 1
  /\ \A id \in Recording : page.isRecording /\ page.mediaRecorderRef = id
  /\ Len(page.loops) <= 1
  /\ /\ ~page.isRecording
     /\ page.requests = {}
     /\ page.awaiting = {}
     /\ \A id \in DOMAIN page.recorders : page.recorders[id] # "stopping"
     => page.tracks = {} /\ page.loops = << >> /\ Recording = {}

\* C23: every weight the lip-sync loop pushes for "aa" and every weight a
\* blink pushes for "blink" lies between 0 and 1, whatever the audio level
\* and at every step of the closing and the opening of the eyes.
C23_WeightsInUnitInterval ==
  /\ \A i \in 1..Len(page.pushed) :
       /\ page.pushed[i].name \in {"aa", "blink"}
       /\ page.pushed[i].value \in 0..WeightScale
  /\ page.expressions.aa \in 0..WeightScale
  /\ page.expressions.blink \in 0..WeightScale
  /\ lastOp \in {"closeTick", "openTick"} =>
       page.pushed = << [name |-> "blink",
                         value |-> (page.blink.step * WeightScale) \div 10] >>

\* a frame on the loudest signal has opened the mouth fully while the eyes
\* were fully closed
C23_Witness ==
  /\ lastOp = "frame"
  /\ page.pushed = << [name |-> "aa", value |-> WeightScale] >>
  /\ page.blink.phase = "closed"
  /\ page.expressions = [aa |-> WeightScale, blink |-> WeightScale]

\* every submission of the chat surface has finished or failed
AllSettled ==
  /\ chat.submits > 0
  /\ \A id \in DOMAIN chat.runs : chat.runs[id].pc = "done"

\* C29: once the submissions have settled the status is not left at
\* submitted or streaming: the timer that switches to streaming after
\* 200 ms does not fire after the final ready or error and overwrite it,
\* however the responses of the servers are timed.  Stated for the states
\* in which no timer is pending any more, where the status stays as it is.
C29_SettledStatusIsFinal ==
  AllSettled /\ chat.timers = {} => chat.status \in {"ready", "error"}

\* C30: the list the threaded chat page sends to the chat server is one
\* system message, then the messages the thread held before the
\* submission, in creation order, then the submitted user message, once.
C30_NewMessageSentOnce ==
  \A id \in DOMAIN chat.runs :
    chat.variant = "thread" /\ chat.runs[id].sent # << >> =>
      chat.runs[id].sent =
        << SystemMessage(chat.runs[id].ragContext) >>
          \o HistoryMessages(chat.runs[id].earlier)
          \o << Message("user", chat.runs[id].userMessage) >>

=============================================================================
